---- MODULE Spec2Model ----
(***************************************************************************)
(* Model of the process supervision engine of hyprdash-daemon:             *)
(* ProcessManager (src/src/monitor/ResourceMonitor.ts) and the power       *)
(* dispatcher of Daemon (src/src/index.ts).                                *)
(*                                                                         *)
(* Node runs one callback at a time, so each action below is one callback  *)
(* run to its next suspension point (an await, a timer, a child-process    *)
(* event).  Every startServer call creates one ServerProcess object and    *)
(* one ChildProcess; both get the same index, in creation order.  An       *)
(* object stays alive in the closures of its handlers after the registry   *)
(* dropped it, so entry and child are kept for every index ever created.   *)
(***************************************************************************)
EXTENDS Integers, Sequences, FiniteSets, TLC

\* ---------------------------------------------------------------- bounds
Servers == {"s1", "s2"}

\* number of startServer calls that may get past the status check
MaxProcs == 2

\* number of stopServer calls that find an entry
MaxStops == 1

VARIABLES
    servers,        \* ProcessManager.servers: a Map, kept as a set of <<serverId, entry>>
    entry,          \* ServerProcess objects: [serverId, status]
    child,          \* ChildProcess objects: [state, killed]
    settleTimers,   \* entries whose 3 s settle timer is armed
    emitted,        \* per entry: the onStatusChange calls, each [status, by]
    startTasks,     \* per serverId and caller: startServer calls suspended at their awaits
    restartTimers,  \* per serverId: armed 2 s restart timers
    stopTasks,      \* stopServer calls that found an entry: [serverId, entry, state, restart]
    thrown,         \* the error thrown by the latest callback, [op, serverId, error]
    command,        \* the sendCommand call of the latest callback, [serverId, writable, wrote]
    daemon,         \* Daemon.shutdown: [state, waits, tracked]
    sampler,        \* one getAllServerStats call: [state, visited, cur, stats, steady, queried]
    mounting,       \* one startServer call with mounts: [state, serverId, n, i, phase, out, ...]
    startup,        \* one handleServerStart call: [state, config, command]
    tokens,         \* the command of one startServer call: [state, input, parts]
    relay,          \* the output of one child: [data (bytes received per stream), events]
    deleting,       \* one server:delete message: [state, serverId, inFlight]
    files,          \* the files:* requests: [pending, replies, crashed]
    resolving,      \* one FileManager.resolvePath call: [state, input, result]
    environ,        \* the environment of one spawn: [state, agent, caller, child]
    reported        \* per serverId: [last (status of the latest server:status), creating]

\* the state of ProcessManager and of the power handler
supervisor == <<servers, entry, child, settleTimers, emitted, startTasks,
                restartTimers, stopTasks, thrown>>

\* the state of the operations that are checked on their own
side == <<sampler, mounting, startup, tokens, relay, deleting, files, resolving,
         environ, reported>>

vars == <<servers, entry, child, settleTimers, emitted, startTasks, restartTimers,
          stopTasks, thrown, command, daemon, side>>

\* ------------------------------------------------------- the registry Map
MapHas(m, k) == \E pr \in m : pr[1] = k

\* Map.get; 0 stands for undefined
MapGet(m, k) == IF MapHas(m, k) THEN (CHOOSE pr \in m : pr[1] = k)[2] ELSE 0

MapSet(m, k, v) == {pr \in m : pr[1] # k} \cup {<<k, v>>}

MapDelete(m, k) == {pr \in m : pr[1] # k}

\* ------------------------------------------------------------- helpers
Entries == 1..Len(entry)

NoError == [op |-> "none", serverId |-> "none", error |-> "none"]

Error(op, s, err) == [op |-> op, serverId |-> s, error |-> err]

Ev(st, by) == [status |-> st, by |-> by]

RECURSIVE SumOver(_, _)
SumOver(f, S) ==
    IF S = {} THEN 0
    ELSE LET x == CHOOSE y \in S : TRUE IN f[x] + SumOver(f, S \ {x})

\* the two callers of startServer: the 'start' power action and the timer of
\* the 'restart' power action
Callers == {"start", "restart"}

\* the startServer calls for server s that are suspended before spawn
Pending(s) == startTasks[s].start + startTasks[s].restart

\* spawns already made or still owed to a request in flight
Reserved ==
    Len(entry) + SumOver([s \in Servers |-> Pending(s)], Servers)
    + SumOver(restartTimers, Servers)
    + Cardinality({i \in 1..Len(stopTasks) :
                      stopTasks[i].state = "racing" /\ stopTasks[i].restart})

\* no sendCommand call in the latest callback
NoCommand == [serverId |-> "none", writable |-> FALSE, wrote |-> 0]

\* the daemon before any shutdown signal
DaemonUp == [state |-> "up", waits |-> {}, tracked |-> {}]

\* no reading
NoStats == [cpu |-> -1, memory |-> -1]

\* no pidusage call answered
NoQuery == [made |-> FALSE, ok |-> FALSE, usage |-> NoStats]

\* no getAllServerStats call yet
SamplerIdle ==
    [state |-> "idle", visited |-> {}, cur |-> "none",
     stats |-> [s \in Servers |-> NoStats], steady |-> {},
     queried |-> [s \in Servers |-> NoQuery]]

\* no startServer call with mounts yet
NoMounting ==
    [state |-> "idle", serverId |-> "none", n |-> 0, i |-> 0, phase |-> "none",
     out |-> <<>>, attempted |-> {}, rmFailed |-> {}, stepFailed |-> {},
     linked |-> {}, entry |-> 0]

\* no handleServerStart call whose command is followed
NoStartup ==
    [state |-> "idle",
     config |-> [startup |-> <<>>, memory |-> 0, variables |-> <<>>,
                 allocation |-> FALSE],
     command |-> <<>>]

\* no startServer call whose command is followed
NoTokens == [state |-> "idle", input |-> <<>>, parts |-> <<>>]

\* the pipes of a child
Streams == {"stdout", "stderr"}

\* no 'data' event yet
NoRelay == [data |-> [st \in Streams |-> <<>>], events |-> <<>>]

\* no server:delete message yet
NoDeleting == [state |-> "idle", serverId |-> "none", inFlight |-> FALSE]

\* no files:* request yet
NoFiles == [pending |-> {}, replies |-> <<>>, crashed |-> FALSE]

\* no resolvePath call yet
NoResolving == [state |-> "idle", input |-> <<>>, result |-> <<>>]

\* no spawn whose environment is followed
NoEnviron == [state |-> "idle", agent |-> <<>>, caller |-> <<>>, child |-> <<>>]

\* no server:status message sent and no server:create message in progress
NoReported == [s \in Servers |-> [last |-> "none", creating |-> FALSE]]

\* the variables of the file and delete handlers
filing == <<deleting, files, resolving>>

\* entry e is the one registered under its serverId
Tracked(e) == <<entry[e].serverId, e>> \in servers

\* a ChildProcess keeps its handle until its exit (or spawn error) is delivered
HasHandle(e) == child[e].state \in {"alive", "dead"}

Init ==
    /\ servers = {}
    /\ entry = <<>>
    /\ child = <<>>
    /\ settleTimers = {}
    /\ emitted = <<>>
    /\ startTasks = [s \in Servers |-> [start |-> 0, restart |-> 0]]
    /\ restartTimers = [s \in Servers |-> 0]
    /\ stopTasks = <<>>
    /\ thrown = NoError
    /\ command = NoCommand
    /\ daemon = DaemonUp
    /\ sampler = SamplerIdle
    /\ mounting = NoMounting
    /\ startup = NoStartup
    /\ tokens = NoTokens
    /\ relay = NoRelay
    /\ deleting = NoDeleting
    /\ files = NoFiles
    /\ resolving = NoResolving
    /\ environ = NoEnviron
    /\ reported = NoReported

\* ------------------------------------------------------------ startServer
\* the status check with STARTING forgotten
StartRejectedRunningOnly(s) ==
    /\ MapHas(servers, s)
    /\ entry[MapGet(servers, s)].status = "RUNNING"

\* lines 159-164: the status check
StartRejected(s) ==
    /\ MapHas(servers, s)
    /\ entry[MapGet(servers, s)].status \in {"RUNNING", "STARTING"}

\* startServer up to its first await (lines 157-169)
StartCheck(s, op) ==
    IF StartRejected(s)
    THEN /\ thrown' = Error(op, s, "AlreadyRunning")
         /\ UNCHANGED startTasks
    ELSE /\ thrown' = NoError
         /\ startTasks' = [startTasks EXCEPT ![s][op] = @ + 1]

\* power message with action 'start' (index.ts lines 188-190, 426-481)
StartCall(s) ==
    /\ Reserved < MaxProcs
    /\ StartCheck(s, "start")
    /\ UNCHANGED <<servers, entry, child, settleTimers, emitted,
                   restartTimers, stopTasks>>

\* registration that adds the entry without replacing the one under the key
RegisterNoReplace(m, s, e) == m \cup {<<s, e>>}

\* line 223: this.servers.set(serverId, serverProcess)
Register(m, s, e) == MapSet(m, s, e)

\* startServer from its last await to its end (lines 194-265), one
\* synchronous block.  spawn() reports ENOENT, EACCES and EAGAIN through an
\* 'error' event queued with process.nextTick, which runs before any other
\* callback: the error handler (lines 258-264) is part of this step.
StartResume(s) ==
    \E op \in Callers, ok \in BOOLEAN :
         LET e == Len(entry) + 1 IN
         /\ startTasks[s][op] > 0
         /\ startTasks' = [startTasks EXCEPT ![s][op] = @ - 1]
         /\ entry' = Append(entry, [serverId |-> s,
                                    status |-> IF ok THEN "STARTING" ELSE "OFFLINE"])
         /\ child' = Append(child, [state |-> IF ok THEN "alive" ELSE "failed",
                                    killed |-> FALSE])
         /\ emitted' = Append(emitted,
                IF ok THEN <<Ev("STARTING", "start")>>
                ELSE <<Ev("STARTING", "start"), Ev("OFFLINE", "error")>>)
         /\ servers' = IF ok THEN Register(servers, s, e)
                       ELSE MapDelete(Register(servers, s, e), s)
         /\ settleTimers' = settleTimers \cup {e}
         /\ thrown' = NoError
         /\ UNCHANGED <<restartTimers, stopTasks>>

\* line 169: await fs.mkdir rejects, startServer throws before spawning
StartFail(s) ==
    /\ \E op \in Callers :
         /\ startTasks[s][op] > 0
         /\ startTasks' = [startTasks EXCEPT ![s][op] = @ - 1]
         /\ thrown' = Error(op, s, "mkdir")
    /\ UNCHANGED <<servers, entry, child, settleTimers, emitted,
                   restartTimers, stopTasks>>

\* the settle condition without the status test
SettleCondNoStatus(e) == ~child[e].killed

\* line 243: the condition of the settle timer
SettleCond(e) == entry[e].status = "STARTING" /\ ~child[e].killed

\* a settle timer that promotes nothing
SettleTimerNoPromote(e) ==
    /\ e \in settleTimers
    /\ settleTimers' = settleTimers \ {e}
    /\ thrown' = NoError
    /\ UNCHANGED <<servers, entry, emitted, child, startTasks, restartTimers,
                   stopTasks>>

\* lines 242-247: the settle timer fires
SettleTimer(e) ==
    /\ e \in settleTimers
    /\ settleTimers' = settleTimers \ {e}
    /\ IF SettleCond(e)
       THEN /\ entry' = [entry EXCEPT ![e].status = "RUNNING"]
            /\ emitted' = [emitted EXCEPT ![e] = Append(@, Ev("RUNNING", "settle"))]
       ELSE UNCHANGED <<entry, emitted>>
    /\ thrown' = NoError
    /\ UNCHANGED <<servers, child, startTasks, restartTimers, stopTasks>>

\* ------------------------------------------------- the supervised process
\* the OS process terminates: by itself, on the "stop" line, or on a signal
ProcDie(p) ==
    /\ p \in Entries
    /\ child[p].state = "alive"
    /\ child' = [child EXCEPT ![p].state = "dead"]
    /\ thrown' = NoError
    /\ UNCHANGED <<servers, entry, settleTimers, emitted,
                   startTasks, restartTimers, stopTasks>>

\* an exit event that reaches no stopServer call
RacingOnNone(p) == {}

\* the stop tasks whose exit listener (lines 293-296) is attached to child p
RacingOn(p) ==
    {i \in 1..Len(stopTasks) : stopTasks[i].entry = p /\ stopTasks[i].state = "racing"}

\* an exit handler that forgets to delete
ExitDeleteMissing(m, s) == m

\* line 254: the registry after the exit handler of an entry of server s
ExitDelete(m, s) == MapDelete(m, s)

\* the 'exit' event of child p: the handler of startServer (lines 250-255),
\* then the listener of every stopServer racing on p (lines 293-296), whose
\* resolve() lets a restart arm its 2 s timer (index.ts line 196)
ExitEvent(p) ==
    /\ p \in Entries
    /\ child[p].state = "dead"
    /\ child' = [child EXCEPT ![p].state = "reaped"]
    /\ entry' = [entry EXCEPT ![p].status = "OFFLINE"]
    /\ emitted' = [emitted EXCEPT ![p] = Append(@, Ev("OFFLINE", "exit"))]
    /\ servers' = ExitDelete(servers, entry[p].serverId)
    /\ stopTasks' = [i \in 1..Len(stopTasks) |->
                        IF i \in RacingOn(p)
                        THEN [stopTasks[i] EXCEPT !.state = "returned"]
                        ELSE stopTasks[i]]
    /\ restartTimers' = [s \in Servers |->
            restartTimers[s]
            + Cardinality({i \in RacingOn(p) :
                             stopTasks[i].restart /\ stopTasks[i].serverId = s})]
    /\ thrown' = NoError
    /\ UNCHANGED <<settleTimers, startTasks>>

\* a kill that reaches the child spawned last instead of the one it is called on
ChildKillNewest(c, e) ==
    IF HasHandle(e) THEN [c EXCEPT ![Len(c)].killed = TRUE] ELSE c

\* ChildProcess.kill('SIGKILL'): while the child has a handle the signal is
\* sent and killed becomes true; afterwards kill() returns false
ChildKill(c, e) ==
    IF HasHandle(e) THEN [c EXCEPT ![e].killed = TRUE] ELSE c

\* --------------------------------------------------------------- stopServer
\* stopServer up to its await (lines 267-297); restart tells whether the
\* caller is the 'restart' power action (index.ts lines 194-197)
StopCall(s, restart) ==
    /\ restart => Reserved < MaxProcs
    /\ IF ~MapHas(servers, s)
       THEN /\ restartTimers' = [restartTimers EXCEPT
                                    ![s] = IF restart THEN @ + 1 ELSE @]
            /\ UNCHANGED <<entry, emitted, stopTasks>>
       ELSE LET e == MapGet(servers, s) IN
            /\ Len(stopTasks) < MaxStops
            /\ entry' = [entry EXCEPT ![e].status = "STOPPING"]
            /\ emitted' = [emitted EXCEPT ![e] = Append(@, Ev("STOPPING", "stop"))]
            /\ stopTasks' = Append(stopTasks,
                   [serverId |-> s, entry |-> e, state |-> "racing",
                    restart |-> restart])
            /\ UNCHANGED restartTimers
    /\ thrown' = NoError
    /\ UNCHANGED <<servers, child, settleTimers, startTasks>>

\* the kill test of the stop timeout, inverted
ForceKillInverted(e) == child[e].killed

\* line 286: the stop timeout kills unless a signal was already sent
ForceKill(e) == ~child[e].killed

\* a stop timeout that kills and leaves the promise pending
StopTimeoutNoResolve(i) ==
    /\ i \in 1..Len(stopTasks)
    /\ stopTasks[i].state = "racing"
    /\ child' = IF ForceKill(stopTasks[i].entry)
                THEN ChildKill(child, stopTasks[i].entry)
                ELSE child
    /\ thrown' = NoError
    /\ UNCHANGED <<servers, entry, settleTimers, emitted, startTasks,
                   restartTimers, stopTasks>>

\* lines 284-291: the 10 s stop timeout fires before the exit event
StopTimeout(i) ==
    /\ i \in 1..Len(stopTasks)
    /\ stopTasks[i].state = "racing"
    /\ child' = IF ForceKill(stopTasks[i].entry)
                THEN ChildKill(child, stopTasks[i].entry)
                ELSE child
    /\ stopTasks' = [stopTasks EXCEPT ![i].state = "returned"]
    /\ restartTimers' = [restartTimers EXCEPT
            ![stopTasks[i].serverId] = IF stopTasks[i].restart THEN @ + 1 ELSE @]
    /\ thrown' = NoError
    /\ UNCHANGED <<servers, entry, settleTimers, emitted, startTasks>>

\* a restart timer that waits for the entry of the server to be gone
RestartTimerAfterExit(s) ==
    /\ ~MapHas(servers, s)
    /\ restartTimers[s] > 0
    /\ restartTimers' = [restartTimers EXCEPT ![s] = @ - 1]
    /\ StartCheck(s, "restart")
    /\ UNCHANGED <<servers, entry, child, settleTimers, emitted, stopTasks>>

\* index.ts line 196: the restart timer fires and calls handleServerStart
RestartTimer(s) ==
    /\ restartTimers[s] > 0
    /\ restartTimers' = [restartTimers EXCEPT ![s] = @ - 1]
    /\ StartCheck(s, "restart")
    /\ UNCHANGED <<servers, entry, child, settleTimers, emitted, stopTasks>>

\* --------------------------------------------------------------- killServer
\* a kill that clears the whole registry
KillCallAll(s) ==
    /\ IF ~MapHas(servers, s)
       THEN UNCHANGED <<servers, entry, child, emitted>>
       ELSE LET e == MapGet(servers, s) IN
            /\ child' = ChildKill(child, e)
            /\ entry' = [entry EXCEPT ![e].status = "OFFLINE"]
            /\ emitted' = [emitted EXCEPT ![e] = Append(@, Ev("OFFLINE", "kill"))]
            /\ servers' = {}
    /\ thrown' = NoError
    /\ UNCHANGED <<settleTimers, startTasks, restartTimers, stopTasks>>

\* lines 300-310
KillCall(s) ==
    /\ IF ~MapHas(servers, s)
       THEN UNCHANGED <<servers, entry, child, emitted>>
       ELSE LET e == MapGet(servers, s) IN
            /\ child' = ChildKill(child, e)
            /\ entry' = [entry EXCEPT ![e].status = "OFFLINE"]
            /\ emitted' = [emitted EXCEPT ![e] = Append(@, Ev("OFFLINE", "kill"))]
            /\ servers' = MapDelete(servers, s)
    /\ thrown' = NoError
    /\ UNCHANGED <<settleTimers, startTasks, restartTimers, stopTasks>>

\* index.ts lines 186-208: the try block of the power handler awaits the
\* start, stop and kill it calls; the start of a restart runs later, in the
\* timer callback of line 196, whose promise nobody awaits
Caught(t) == t.op = "start"

\* lines 350-353
getServerStatus(s) ==
    IF MapHas(servers, s) THEN entry[MapGet(servers, s)].status ELSE "OFFLINE"

\* -------------------------------------------------------------- sendCommand
\* process.stdin.writable: Node destroys the stdin pipe of a child when it
\* delivers its exit; before that a pipe whose reader is gone may already
\* have failed
StdinWritable(e) ==
    IF child[e].state = "alive" THEN {TRUE}
    ELSE IF child[e].state = "dead" THEN BOOLEAN
    ELSE {FALSE}

\* a guard that forgets to test the stream
CommandDroppedNoStreamTest(s, w) == ~MapHas(servers, s)

\* line 314: no entry, or stdin not writable
CommandDropped(s, w) == ~MapHas(servers, s) \/ ~w

\* the 'server:command' message (index.ts lines 212-215) and sendCommand
\* (lines 312-320); w is the value of stdin.writable at the call
SendCommand(s) ==
    /\ \E w \in (IF MapHas(servers, s) THEN StdinWritable(MapGet(servers, s))
                  ELSE {FALSE}) :
         command' = [serverId |-> s, writable |-> w,
                     wrote |-> IF CommandDropped(s, w) THEN 0
                               ELSE MapGet(servers, s)]
    /\ thrown' = NoError
    /\ UNCHANGED <<servers, entry, child, settleTimers, emitted, startTasks,
                   restartTimers, stopTasks, daemon, side>>

\* ----------------------------------------------------------------- shutdown
\* the orders in which a set of keys can be iterated
Orders(S) ==
    {q \in [1..Cardinality(S) -> S] : \A i, j \in DOMAIN q : q[i] = q[j] => i = j}

\* the stopServer calls of stopAllServers (lines 323-325), in the order q of
\* the keys: each runs up to its await (lines 267-297) before the next is made
StopAll(q) ==
    [i \in 1..Len(q) |->
        [serverId |-> q[i], entry |-> MapGet(servers, q[i]), state |-> "racing",
         restart |-> FALSE]]

\* a shutdown that goes on when the first stop has returned
AllStoppedAny(d, st) == \E i \in d.waits : st[i].state = "returned"

\* line 326: await Promise.all(stopPromises)
AllStopped(d, st) == \A i \in d.waits : st[i].state = "returned"

\* index.ts lines 501-507: once stopAllServers has returned, shutdown
\* disconnects and calls process.exit(0) in the same turn of the event loop
AfterStops(d, st) ==
    IF d.state = "stopping" /\ AllStopped(d, st)
    THEN [d EXCEPT !.state = "exited"]
    ELSE d

\* SIGINT or SIGTERM: Daemon.shutdown (index.ts lines 497-508, 514-515) up to
\* the await of stopAllServers
Shutdown ==
    /\ daemon.state = "up"
    /\ LET keys == {s \in Servers : MapHas(servers, s)} IN
       \E q \in Orders(keys) :
         LET st == stopTasks \o StopAll(q)
             d == [state |-> "stopping",
                   waits |-> Len(stopTasks) + 1 .. Len(st),
                   tracked |-> keys]
         IN
         /\ stopTasks' = st
         /\ entry' = [e \in Entries |->
                IF Tracked(e) THEN [entry[e] EXCEPT !.status = "STOPPING"]
                ELSE entry[e]]
         /\ emitted' = [e \in Entries |->
                IF Tracked(e) THEN Append(emitted[e], Ev("STOPPING", "stop"))
                ELSE emitted[e]]
         /\ daemon' = AfterStops(d, st)
    /\ thrown' = NoError
    /\ UNCHANGED <<servers, child, settleTimers, startTasks, restartTimers,
                   command, side>>

\* -------------------------------------------------------- getAllServerStats
\* what pidusage can answer: cpu in thousandths of a percent, memory in bytes
Usages == {[cpu |-> 0, memory |-> 0], [cpu |-> 12345, memory |-> 1572864]}

\* lines 337-338: Math.round(cpu * 100) / 100 and Math.round(memory / 2^20)
Reading(u) ==
    [cpu |-> ((u.cpu + 5) \div 10) * 10,
     memory |-> (u.memory + 524288) \div 1048576]

\* line 342
ZeroStats == [cpu |-> 0, memory |-> 0]

\* a test that looks at the pid only
SampledAnyStatus(s) ==
    /\ MapHas(servers, s)
    /\ child[MapGet(servers, s)].state # "failed"

\* line 333: the test that leads to a pidusage call.  process.pid is
\* undefined only for a child whose spawn failed.
Sampled(s) ==
    /\ MapHas(servers, s)
    /\ child[MapGet(servers, s)].state # "failed"
    /\ entry[MapGet(servers, s)].status = "RUNNING"

\* the first key of q that passes the test of line 333; 0 if there is none
RECURSIVE FirstSampled(_, _)
FirstSampled(q, i) ==
    IF i > Len(q) THEN 0
    ELSE IF Sampled(q[i]) THEN i
    ELSE FirstSampled(q, i + 1)

\* lines 332-347: the for-of loop over the live Map runs on to its next
\* await or to the return.  q is the order of the keys not yet visited: a
\* Map iterates in insertion order, which the registry of this model does
\* not keep, so every order is taken.
Advance(sm, q) ==
    LET i == FirstSampled(q, 1) IN
    IF i = 0
    THEN [sm EXCEPT !.state = "done", !.cur = "none",
                    !.visited = @ \cup {q[j] : j \in 1..Len(q)}]
    ELSE [sm EXCEPT !.state = "awaiting", !.cur = q[i],
                    !.visited = @ \cup {q[j] : j \in 1..i}]

\* the keys the iterator has still to visit
Unvisited(sm) == {s \in Servers : MapHas(servers, s) /\ s \notin sm.visited}

\* a catch block that lets the failure end the pass
AfterFailureAbort(sm, s, q) == [sm EXCEPT !.state = "done", !.cur = "none"]

\* lines 340-343: the catch block, and the loop going on
AfterFailure(sm, s, q) == Advance([sm EXCEPT !.stats[s] = ZeroStats], q)

\* lines 335-339: the reading, and the loop going on
AfterUsage(sm, s, u, q) == Advance([sm EXCEPT !.stats[s] = Reading(u)], q)

\* index.ts line 490: the stats timer calls getAllServerStats, which runs
\* to its first await (lines 329-335)
SampleStart ==
    /\ sampler.state = "idle"
    /\ \E q \in Orders(Unvisited(sampler)) :
         sampler' = Advance([sampler EXCEPT
                                !.steady = {s \in Servers : Sampled(s)}], q)
    /\ thrown' = NoError
    /\ UNCHANGED <<servers, entry, child, settleTimers, emitted, startTasks,
                   restartTimers, stopTasks, command, daemon, mounting,
                   startup, tokens, relay, filing, environ, reported>>

\* pidusage answers or fails (lines 335-343), and the loop runs on
SampleResume ==
    /\ sampler.state = "awaiting"
    /\ LET s == sampler.cur IN
       \E ok \in BOOLEAN, u \in Usages :
         LET sm == [sampler EXCEPT
                       !.queried[s] = [made |-> TRUE, ok |-> ok,
                                       usage |-> IF ok THEN u ELSE NoStats]]
         IN \E q \in Orders(Unvisited(sm)) :
               sampler' = IF ok THEN AfterUsage(sm, s, u, q)
                          ELSE AfterFailure(sm, s, q)
    /\ thrown' = NoError
    /\ UNCHANGED <<servers, entry, child, settleTimers, emitted, startTasks,
                   restartTimers, stopTasks, command, daemon, mounting,
                   startup, tokens, relay, filing, environ, reported>>

\* ------------------------------------------------------ startServer: mounts
\* the largest number of mounts in a configuration
MaxMounts == 2

\* the awaits of one mount, in order (lines 178, 182, 185)
MountPhases == <<"rm", "mkdir", "symlink">>

\* the for-of of line 173 goes to its next mount, or ends
NextMount(mg) ==
    IF mg.i < mg.n
    THEN [mg EXCEPT !.i = @ + 1, !.phase = "rm", !.attempted = @ \cup {mg.i + 1}]
    ELSE [mg EXCEPT !.state = "spawning", !.phase = "none"]

\* an outer catch that gives up the mounts that remain
OnMountErrorBreak(mg) ==
    [mg EXCEPT !.state = "spawning", !.phase = "none",
               !.out = Append(@, mg.i), !.stepFailed = @ \cup {mg.i}]

\* lines 187-190: the outer catch sends the warning line through onOutput
OnMountError(mg) ==
    NextMount([mg EXCEPT !.out = Append(@, mg.i), !.stepFailed = @ \cup {mg.i}])

\* lines 174-190: one await of the current mount ends, with success or not.
\* The failure of rm is swallowed by the inner catch (lines 177-179).
MountAwait(mg, ok) ==
    IF mg.phase = "rm"
    THEN [mg EXCEPT !.phase = "mkdir",
                    !.rmFailed = IF ok THEN @ ELSE @ \cup {mg.i}]
    ELSE IF ~ok THEN OnMountError(mg)
    ELSE IF mg.phase = "mkdir" THEN [mg EXCEPT !.phase = "symlink"]
    ELSE NextMount([mg EXCEPT !.linked = @ \cup {mg.i}])

\* power message 'start' whose configuration has n mounts: startServer up to
\* the await of line 169
MountedStart(s, n) ==
    /\ mounting.state = "idle"
    /\ Pending(s) = 0
    /\ ~StartRejected(s)
    /\ StartCall(s)
    /\ mounting' = [NoMounting EXCEPT !.state = "mkdir", !.serverId = s, !.n = n]
    /\ UNCHANGED <<command, daemon, sampler, startup, tokens, relay, filing, environ, reported>>

\* line 169 resolves and the loop reaches the rm of the first mount, or line
\* 169 rejects and startServer throws
MountMkdir ==
    /\ mounting.state = "mkdir"
    /\ \/ /\ mounting' = [mounting EXCEPT !.state = "mounting", !.i = 1,
                                            !.phase = "rm", !.attempted = {1}]
          /\ thrown' = NoError
          /\ UNCHANGED <<servers, entry, child, settleTimers, emitted,
                         startTasks, restartTimers, stopTasks>>
       \/ /\ mounting' = [mounting EXCEPT !.state = "failed"]
          /\ StartFail(mounting.serverId)
    /\ UNCHANGED <<command, daemon, sampler, startup, tokens, relay, filing, environ, reported>>

\* an await of the mount loop ends; after the last mount startServer runs on
\* through spawn and registration in the same callback (lines 194-265)
MountStep ==
    /\ mounting.state = "mounting"
    /\ \E ok \in BOOLEAN :
         LET mg == MountAwait(mounting, ok) IN
         IF mg.state = "spawning"
         THEN /\ StartResume(mounting.serverId)
              /\ mounting' = [mg EXCEPT !.state = "spawned", !.entry = Len(entry) + 1]
         ELSE /\ mounting' = mg
              /\ thrown' = NoError
              /\ UNCHANGED <<servers, entry, child, settleTimers, emitted,
                             startTasks, restartTimers, stopTasks>>
    /\ UNCHANGED <<command, daemon, sampler, startup, tokens, relay, filing, environ, reported>>

\* ------------------------------------------------- command template (index.ts)
\* A string is a sequence of pieces: a piece is literal text, the decimal
\* digits of a number, or one whole {{NAME}} placeholder.  A replace with a
\* /{{NAME}}/g pattern acts on whole placeholders.
Lit(t) == [kind |-> "lit", text |-> t, digits |-> <<>>]

Ph(name) == [kind |-> "ph", text |-> name, digits |-> <<>>]

\* Number.prototype.toString of a non-negative integer
RECURSIVE Decimal(_)
Decimal(n) == IF n < 10 THEN <<n>> ELSE Append(Decimal(n \div 10), n % 10)

Num(n) == [kind |-> "lit", text |-> "", digits |-> Decimal(n)]

\* String.prototype.replace with the global pattern of placeholder name:
\* every occurrence, in one pass over the string
RECURSIVE ReplaceAll(_, _, _)
ReplaceAll(str, name, rep) ==
    IF str = <<>> THEN <<>>
    ELSE (IF Head(str) = Ph(name) THEN rep ELSE <<Head(str)>>)
         \o ReplaceAll(Tail(str), name, rep)

\* index.ts lines 434-441: the caller's variables, in their order
RECURSIVE ReplaceVariables(_, _)
ReplaceVariables(str, variables) ==
    IF variables = <<>> THEN str
    ELSE ReplaceVariables(
            ReplaceAll(str, Head(variables).envVariable, Head(variables).value),
            Tail(variables))

\* the allocation of the configurations that have one
AllocationIp == <<Lit("0.0.0.0")>>

AllocationPort == <<Num(25565)>>

\* index.ts lines 444-447
ReplaceAllocation(str, has) ==
    IF has
    THEN ReplaceAll(ReplaceAll(str, "SERVER_IP", AllocationIp),
                    "SERVER_PORT", AllocationPort)
    ELSE str

\* a resolution without the fallback of the jar file
FallbackVersionOnly(str) == ReplaceAll(str, "MC_VERSION", <<Lit("latest")>>)

\* index.ts lines 450-451
Fallback(str) ==
    ReplaceAll(ReplaceAll(str, "SERVER_JARFILE", <<Lit("server.jar")>>),
               "MC_VERSION", <<Lit("latest")>>)

\* a resolution that applies the fallbacks before everything else
ResolveStartupFallbackFirst(config) ==
    ReplaceAllocation(
      ReplaceVariables(
        ReplaceAll(Fallback(config.startup), "SERVER_MEMORY", <<Num(config.memory)>>),
        config.variables),
      config.allocation)

\* index.ts lines 428-451
ResolveStartup(config) ==
    Fallback(
      ReplaceAllocation(
        ReplaceVariables(
          ReplaceAll(config.startup, "SERVER_MEMORY", <<Num(config.memory)>>),
          config.variables),
        config.allocation))

\* the longest template, in pieces, and the most variables of a configuration
MaxTemplate == 2

MaxVars == 1

SeqUpTo(S, n) == UNION {[1..k -> S] : k \in 0..n}

Pieces ==
    {Lit("a"), Ph("SERVER_MEMORY"), Ph("SERVER_JARFILE"), Ph("MC_VERSION"),
     Ph("SERVER_IP"), Ph("X")}

Variables ==
    [envVariable : {"SERVER_JARFILE", "MC_VERSION", "X"},
     value : {<<Lit("paper.jar")>>, <<Ph("SERVER_JARFILE")>>, <<Ph("MC_VERSION")>>}]

\* the template of the specification's example
ExampleTemplate ==
    <<Lit("java -Xmx"), Ph("SERVER_MEMORY"), Lit("M -jar "), Ph("SERVER_JARFILE")>>

Configs ==
    [startup : SeqUpTo(Pieces, MaxTemplate) \cup {ExampleTemplate},
     memory : {512, 1024},
     variables : SeqUpTo(Variables, MaxVars),
     allocation : BOOLEAN]

\* power message 'start': handleServerStart resolves the command and calls
\* startServer, which runs to its first await (index.ts lines 426-481)
HandleServerStart(s) ==
    /\ startup.state = "config"
    /\ startup' = [startup EXCEPT !.state = "resolved",
                                  !.command = ResolveStartup(startup.config)]
    /\ StartCall(s)
    /\ UNCHANGED <<command, daemon, sampler, mounting, tokens, relay, filing, environ, reported>>

\* ------------------------------------------------------------- parseCommand
\* A command is a sequence of characters, a token too.
Quotes == {"\"", "'"}

\* lines 375-378 and 384-386 with the test of current left out
PushEvenEmpty(parts, current) == Append(parts, current)

\* lines 375-378 and 384-386: current is pushed unless it is empty
Push(parts, current) == IF current # <<>> THEN Append(parts, current) ELSE parts

\* the variables of parseCommand before its loop (lines 362-365)
ScanStart == [parts |-> <<>>, current |-> <<>>, inQuotes |-> FALSE, quoteChar |-> ""]

\* lines 368-381: the body of the loop for one character
ScanChar(st, char) ==
    IF char \in Quotes /\ ~st.inQuotes
    THEN [st EXCEPT !.inQuotes = TRUE, !.quoteChar = char]
    ELSE IF char = st.quoteChar /\ st.inQuotes
    THEN [st EXCEPT !.inQuotes = FALSE, !.quoteChar = ""]
    ELSE IF char = " " /\ ~st.inQuotes
    THEN [st EXCEPT !.parts = Push(st.parts, st.current), !.current = <<>>]
    ELSE [st EXCEPT !.current = Append(@, char)]

\* lines 367-382: the loop over the first i characters
RECURSIVE Scan(_, _)
Scan(str, i) == IF i = 0 THEN ScanStart ELSE ScanChar(Scan(str, i - 1), str[i])

\* lines 360-389
parseCommand(str) ==
    LET st == Scan(str, Len(str)) IN Push(st.parts, st.current)

\* the longest command, in characters
MaxCommand == 4

Chars == {"a", " ", "\t", "\"", "'"}

\* start "My Server" --flag 'a b'
ExampleCommand ==
    <<"s", "t", "a", "r", "t", " ", "\"", "M", "y", " ", "S", "e", "r", "v",
      "e", "r", "\"", " ", "-", "-", "f", "l", "a", "g", " ", "'", "a", " ",
      "b", "'">>

Commands == SeqUpTo(Chars, MaxCommand) \cup {ExampleCommand}

\* the callback of startServer that parses config.command and spawns (lines
\* 194-265)
ParseAndSpawn(s) ==
    /\ tokens.state = "input"
    /\ tokens' = [tokens EXCEPT !.state = "parsed",
                                !.parts = parseCommand(tokens.input)]
    /\ StartResume(s)
    /\ UNCHANGED <<command, daemon, sampler, mounting, startup, relay, filing, environ, reported>>

\* ------------------------------------------------------------ output relay
\* the bytes a child writes: line feed, space, 'a'
Bytes == {10, 32, 97}

\* Buffer.toString(): the utf8 decoding of these bytes
Decode(b) == IF b = 10 THEN "\n" ELSE IF b = 32 THEN " " ELSE "a"

BufferToString(buf) == [j \in DOMAIN buf |-> Decode(buf[j])]

\* String.prototype.split with the separator line feed: the last piece is
\* what follows the last separator, empty or not
RECURSIVE Split(_)
Split(str) ==
    IF \A j \in DOMAIN str : str[j] # "\n" THEN <<str>>
    ELSE LET k == CHOOSE j \in DOMAIN str :
                      str[j] = "\n" /\ \A h \in 1..(j - 1) : str[h] # "\n"
         IN <<SubSeq(str, 1, k - 1)>> \o Split(SubSeq(str, k + 1, Len(str)))

\* the characters String.prototype.trim removes, among those of the model
Blank == {" ", "\n"}

\* a filter that lets every line through
KeepAll(l) == TRUE

\* lines 226 and 234: l => l.trim(), true for a line that trim leaves
\* non-empty
Keep(l) == \E j \in DOMAIN l : l[j] \notin Blank

RECURSIVE Filter(_)
Filter(ls) ==
    IF ls = <<>> THEN <<>>
    ELSE (IF Keep(Head(ls)) THEN <<Head(ls)>> ELSE <<>>) \o Filter(Tail(ls))

\* line 236: the prefix of a stderr line, one piece
ErrorPrefix == <<"[ERROR] ">>

\* lines 227-229 and 235-237: the onOutput calls of one chunk
Lines(st, buf) ==
    LET ls == Filter(Split(BufferToString(buf))) IN
    [j \in DOMAIN ls |->
        [stream |-> st,
         line |-> IF st = "stderr" THEN ErrorPrefix \o ls[j] ELSE ls[j]]]

\* the most bytes a child writes
MaxData == 3

Received == Len(relay.data["stdout"]) + Len(relay.data["stderr"])

\* lines 225-239: a 'data' event of the stdout or stderr pipe of entry e
\* with the chunk buf; the pipes of a child can deliver after its exit
OnData(e, st, buf) ==
    /\ child[e].state # "failed"
    /\ Received + Len(buf) <= MaxData
    /\ relay' = [relay EXCEPT !.data[st] = @ \o buf,
                              !.events = @ \o Lines(st, buf)]
    /\ thrown' = NoError
    /\ UNCHANGED <<servers, entry, child, settleTimers, emitted, startTasks,
                   restartTimers, stopTasks, command, daemon, sampler,
                   mounting, startup, tokens, filing, environ, reported>>

\* ------------------------------------------------------------ server:delete
\* the variables the delete handler leaves alone
notDeleting == <<command, daemon, sampler, mounting, startup, tokens, relay,
                 files, resolving, environ>>

\* index.ts lines 218-222: the delete message for server s.  killServer has
\* no await of its own, so the handler runs through it to the fs.rm of
\* deleteServerDirectory (lines 148-151) in one callback.
DeleteCall(s) ==
    /\ deleting.state = "idle"
    /\ KillCall(s)
    /\ deleting' = [state |-> "removing", serverId |-> s, inFlight |-> Pending(s) > 0]
    /\ UNCHANGED notDeleting

\* index.ts lines 222-225: fs.rm has removed the root, or has failed and the
\* handler has logged it; the message is handled
DeleteDone ==
    /\ deleting.state = "removing"
    /\ deleting' = [deleting EXCEPT !.state = "done"]
    /\ thrown' = NoError
    /\ UNCHANGED <<servers, entry, child, settleTimers, emitted, startTasks,
                   restartTimers, stopTasks, notDeleting>>

\* ------------------------------------------------------ files:* (index.ts)
\* the number of requests of a run; a requestId is a number of 1..MaxRequests
MaxRequests == 2

RequestIds == 1..MaxRequests

\* index.ts lines 229-348: the nine request/response messages
FileKinds ==
    {"list", "read", "write", "mkdir", "rename", "copy", "delete", "compress",
     "decompress"}

\* the variables the files handlers leave alone
notFiles == <<command, daemon, sampler, mounting, startup, tokens, relay,
              deleting, resolving, environ, reported>>

\* a files:<kind> message with requestId id: the handler calls the
\* FileManager and waits for its promise
FilesRequest(id, kind) ==
    /\ ~files.crashed
    /\ \A r \in files.pending : r.requestId # id
    /\ \A j \in DOMAIN files.replies : files.replies[j].requestId # id
    /\ files' = [files EXCEPT !.pending = @ \cup {[requestId |-> id, kind |-> kind]}]
    /\ UNCHANGED <<supervisor, notFiles>>

\* the promise of request r settles: the handler emits files:<kind>:response
\* from its try block or files:error from its catch block
FilesSettle(r, ok) ==
    /\ ~files.crashed
    /\ r \in files.pending
    /\ files' = [files EXCEPT
          !.pending = @ \ {r},
          !.replies = Append(@, [requestId |-> r.requestId,
                                 event |-> IF ok THEN r.kind ELSE "error"])]
    /\ UNCHANGED <<supervisor, notFiles>>

\* createArchive (part_001 lines 147-178): the write stream of the output
\* file has a 'close' listener and no 'error' listener, so an error of that
\* stream (the output cannot be opened or written) is an uncaught exception:
\* the process ends, index.ts installing no handler for it
FilesStreamError(r) ==
    /\ ~files.crashed
    /\ r \in files.pending
    /\ r.kind = "compress"
    /\ files' = [files EXCEPT !.crashed = TRUE]
    /\ UNCHANGED <<supervisor, notFiles>>

\* ------------------------------------------- FileManager.resolvePath (part_001)
\* A path is a sequence of characters.
\* the pieces of str between its slashes, empty ones included
RECURSIVE SplitSlash(_)
SplitSlash(str) ==
    IF \A j \in DOMAIN str : str[j] # "/" THEN <<str>>
    ELSE LET k == CHOOSE j \in DOMAIN str :
                      str[j] = "/" /\ \A h \in 1..(j - 1) : str[h] # "/"
         IN <<SubSeq(str, 1, k - 1)>> \o SplitSlash(SubSeq(str, k + 1, Len(str)))

\* path.resolve and path.normalize on the segments of an absolute path: an
\* empty segment and '.' are dropped, '..' drops the segment before it and
\* is itself dropped at the root
RECURSIVE NormalizeSegments(_, _)
NormalizeSegments(segs, acc) ==
    IF segs = <<>> THEN acc
    ELSE LET sg == Head(segs) IN
         NormalizeSegments(Tail(segs),
            IF sg = <<>> \/ sg = <<".">> THEN acc
            ELSE IF sg = <<".", ".">>
                 THEN (IF acc = <<>> THEN acc ELSE SubSeq(acc, 1, Len(acc) - 1))
            ELSE Append(acc, sg))

\* the absolute path of a sequence of segments
RECURSIVE JoinSegments(_)
JoinSegments(segs) ==
    IF segs = <<>> THEN <<>>
    ELSE <<"/">> \o Head(segs) \o JoinSegments(Tail(segs))

AbsolutePath(segs) == IF segs = <<>> THEN <<"/">> ELSE JoinSegments(segs)

\* path.normalize of an absolute path
PathNormalize(p) == AbsolutePath(NormalizeSegments(SplitSlash(p), <<>>))

\* path.resolve(from, to) with from absolute: to replaces from when it is
\* absolute and is appended to it otherwise; the result is normalized
PathResolve(from, to) ==
    IF to # <<>> /\ Head(to) = "/" THEN PathNormalize(to)
    ELSE PathNormalize(from \o <<"/">> \o to)

\* part_001 line 33: replace(/^\/+/, '')
RECURSIVE StripLeadingSlashes(_)
StripLeadingSlashes(p) ==
    IF p # <<>> /\ Head(p) = "/" THEN StripLeadingSlashes(Tail(p)) ELSE p

\* part_001 lines 28-34
NormalizedPath(filePath) ==
    IF filePath = <<"/">> \/ filePath = <<>> THEN <<".">>
    ELSE StripLeadingSlashes(filePath)

StartsWith(str, prefix) ==
    Len(str) >= Len(prefix) /\ SubSeq(str, 1, Len(prefix)) = prefix

\* a containment test on the bare prefix, without the separator
WithinPrefixOnly(resolved, dir) == StartsWith(resolved, dir)

\* part_001 line 43: the test that lets a resolved path through
Within(resolved, dir) == resolved = dir \/ StartsWith(resolved, dir \o <<"/">>)

\* the base directory of the FileManager and the server of the requests
BaseDirectory == <<"/", "d">>

FileServerId == <<"s">>

\* part_001 lines 23-49; the result is the path returned, or thrown is TRUE
resolvePath(serverId, filePath) ==
    LET serverDir == PathResolve(BaseDirectory, serverId)
        resolved == PathResolve(serverDir, NormalizedPath(filePath))
    IN IF Within(PathNormalize(resolved), PathNormalize(serverDir))
       THEN [thrown |-> FALSE, path |-> resolved]
       ELSE [thrown |-> TRUE, path |-> <<>>]

\* the longest path of a request, in characters
MaxPath == 5

PathChars == {"/", ".", "s"}

\* files:mkdir with requestId id (index.ts lines 276-286): createDirectory
\* (part_001 lines 95-98) resolves the path and awaits fs.mkdir; when
\* resolvePath throws, the catch block of the handler replies in the same
\* callback
FilesMkdir(id) ==
    /\ resolving.state = "input"
    /\ LET r == resolvePath(FileServerId, resolving.input) IN
       /\ resolving' = [resolving EXCEPT
             !.state = IF r.thrown THEN "thrown" ELSE "returned",
             !.result = r.path]
       /\ files' = IF r.thrown
                   THEN [files EXCEPT !.replies =
                           Append(@, [requestId |-> id, event |-> "error"])]
                   ELSE [files EXCEPT !.pending =
                           @ \cup {[requestId |-> id, kind |-> "mkdir"]}]
    /\ UNCHANGED <<supervisor, command, daemon, sampler, mounting, startup,
                   tokens, relay, deleting, environ, reported>>

\* -------------------------------------------------- startServer: environment
\* An environment is a function from the names it defines to their values; a
\* value is a path, in segments.
\* line 165: the root of server s under the base directory
ServerPath(s) == <<"servers", s>>

EnvKeys == {"HOME", "PATH"}

EnvValues == {ServerPath(s) : s \in Servers} \cup {<<"root">>}

Envs == UNION {[K -> EnvValues] : K \in SUBSET EnvKeys}

\* a merge in which the earlier source keeps its keys
SpreadFirstWins(a, b) ==
    [k \in DOMAIN a \cup DOMAIN b |-> IF k \in DOMAIN a THEN a[k] ELSE b[k]]

\* {...a, ...b}: the properties of a, then those of b over them
Spread(a, b) ==
    [k \in DOMAIN a \cup DOMAIN b |-> IF k \in DOMAIN b THEN b[k] ELSE a[k]]

\* lines 197-202: process.env, then config.env, then HOME
ChildEnv(s, agent, caller) ==
    Spread(Spread(agent, caller), [k \in {"HOME"} |-> ServerPath(s)])

\* the callback of startServer that builds the environment and spawns
\* (lines 194-265)
SpawnWithEnv(s) ==
    /\ environ.state = "input"
    /\ environ' = [environ EXCEPT
                      !.state = s,
                      !.child = ChildEnv(s, environ.agent, environ.caller)]
    /\ StartResume(s)
    /\ UNCHANGED <<command, daemon, sampler, mounting, startup, tokens, relay,
                   filing, reported>>

\* ------------------------------------------- server:status (index.ts)
\* the entries of server s whose onStatusChange callback (index.ts lines
\* 477-479) ran in this step
Emitting(s) ==
    {e \in 1..Len(emitted') :
        /\ entry'[e].serverId = s
        /\ Len(emitted'[e]) > 0
        /\ (e \in Entries => emitted'[e] # emitted[e])}

\* the status of the last server:status message of this step for server s
LastEmitted(s) ==
    LET e == CHOOSE x \in Emitting(s) : TRUE
    IN  emitted'[e][Len(emitted'[e])].status

\* the control plane keeps, per serverId, the status of the latest
\* server:status message of the ProcessManager callbacks
Reporting ==
    /\ reported' = [s \in Servers |->
            [reported[s] EXCEPT
                !.last = IF Emitting(s) # {} THEN LastEmitted(s) ELSE @]]
    /\ UNCHANGED <<command, daemon, sampler, mounting, startup, tokens, relay,
                   files, resolving, environ>>

\* index.ts lines 132-135: the create message for server s, up to the await
\* of createServerDirectory (lines 143-146)
CreateCall(s) ==
    /\ ~reported[s].creating
    /\ reported' = [reported EXCEPT ![s].creating = TRUE]
    /\ thrown' = NoError
    /\ UNCHANGED <<servers, entry, child, settleTimers, emitted, startTasks,
                   restartTimers, stopTasks, command, daemon, sampler, mounting,
                   startup, tokens, relay, filing, environ>>

\* index.ts lines 136-143: fs.mkdir has settled; on success the handler sends
\* server:status OFFLINE, on failure server:error
CreateDone(s, ok) ==
    /\ reported[s].creating
    /\ reported' = [reported EXCEPT
                       ![s].creating = FALSE,
                       ![s].last = IF ok THEN "OFFLINE" ELSE @]
    /\ thrown' = NoError
    /\ UNCHANGED <<servers, entry, child, settleTimers, emitted, startTasks,
                   restartTimers, stopTasks, command, daemon, sampler, mounting,
                   startup, tokens, relay, filing, environ>>

\* no handler of a create, power or delete message is between two awaits
Quiescent ==
    /\ \A s \in Servers : Pending(s) = 0 /\ ~reported[s].creating
    /\ \A i \in 1..Len(stopTasks) : stopTasks[i].state # "racing"
    /\ deleting.state # "removing"

\* ---------------------------------------------------------- specification
\* what the supervisor's callbacks leave alone
aux == <<command, daemon, side>>

Next ==
    \/ \E s \in Servers : StartCall(s) /\ UNCHANGED aux
    \/ \E s \in Servers : StartResume(s) /\ UNCHANGED aux
    \/ \E s \in Servers : StartFail(s) /\ UNCHANGED aux
    \/ \E e \in Entries : SettleTimer(e) /\ UNCHANGED aux
    \/ \E p \in Entries : ProcDie(p) /\ UNCHANGED aux
    \/ \E p \in Entries : ExitEvent(p) /\ UNCHANGED aux
    \/ \E s \in Servers, restart \in BOOLEAN : StopCall(s, restart) /\ UNCHANGED aux
    \/ \E i \in 1..Len(stopTasks) : StopTimeout(i) /\ UNCHANGED aux
    \/ \E s \in Servers : RestartTimer(s) /\ UNCHANGED aux
    \/ \E s \in Servers : KillCall(s) /\ UNCHANGED aux

Spec == Init /\ [][Next]_vars

\* the supervisor with console commands: a callback other than the command
\* handler makes no sendCommand call
Quiet == command' = NoCommand /\ UNCHANGED <<daemon, side>>

NextCmd ==
    \/ \E s \in Servers : StartCall(s) /\ Quiet
    \/ \E s \in Servers : StartResume(s) /\ Quiet
    \/ \E s \in Servers : StartFail(s) /\ Quiet
    \/ \E e \in Entries : SettleTimer(e) /\ Quiet
    \/ \E p \in Entries : ProcDie(p) /\ Quiet
    \/ \E p \in Entries : ExitEvent(p) /\ Quiet
    \/ \E s \in Servers, restart \in BOOLEAN : StopCall(s, restart) /\ Quiet
    \/ \E i \in 1..Len(stopTasks) : StopTimeout(i) /\ Quiet
    \/ \E s \in Servers : RestartTimer(s) /\ Quiet
    \/ \E s \in Servers : KillCall(s) /\ Quiet
    \/ \E s \in Servers : SendCommand(s)

SpecCmd == Init /\ [][NextCmd]_vars

\* the supervisor with the shutdown signal: callbacks run until process.exit.
\* Starts, kills, timers and exits interleave with the shutdown; the only
\* stopServer calls are those of stopAllServers.
Alive == daemon.state # "exited" /\ UNCHANGED aux

\* a callback that resolves stop promises lets a waiting shutdown finish
Resolving ==
    /\ daemon.state # "exited"
    /\ daemon' = AfterStops(daemon, stopTasks')
    /\ UNCHANGED <<command, side>>

NextShutdown ==
    \/ \E s \in Servers : StartCall(s) /\ Alive
    \/ \E s \in Servers : StartResume(s) /\ Alive
    \/ \E s \in Servers : StartFail(s) /\ Alive
    \/ \E e \in Entries : SettleTimer(e) /\ Alive
    \/ \E p \in Entries : ProcDie(p) /\ Alive
    \/ \E p \in Entries : ExitEvent(p) /\ Resolving
    \/ \E i \in 1..Len(stopTasks) : StopTimeout(i) /\ Resolving
    \/ \E s \in Servers : KillCall(s) /\ Alive
    \/ Shutdown

SpecShutdown == Init /\ [][NextShutdown]_vars

\* the supervisor with one stats pass.  A key deleted from the Map and set
\* again is iterated again; steady keeps the servers that were RUNNING when
\* the pass began and whose entry has neither changed nor been replaced.
Sampling ==
    /\ sampler.state # "done"
    /\ sampler' = [sampler EXCEPT
          !.visited = {s \in @ : MapHas(servers', s)},
          !.steady = {s \in @ : /\ MapGet(servers', s) = MapGet(servers, s)
                                /\ MapHas(servers', s)
                                /\ entry'[MapGet(servers, s)].status = "RUNNING"}]
    /\ UNCHANGED <<command, daemon, mounting, startup, tokens, relay, filing, environ, reported>>

NextStats ==
    \/ \E s \in Servers : StartCall(s) /\ Sampling
    \/ \E s \in Servers : StartResume(s) /\ Sampling
    \/ \E s \in Servers : StartFail(s) /\ Sampling
    \/ \E e \in Entries : SettleTimer(e) /\ Sampling
    \/ \E p \in Entries : ProcDie(p) /\ Sampling
    \/ \E p \in Entries : ExitEvent(p) /\ Sampling
    \/ \E s \in Servers : KillCall(s) /\ Sampling
    \/ SampleStart
    \/ SampleResume

SpecStats == Init /\ [][NextStats]_vars

\* one stats pass among starts, stops and kills, short enough for no process
\* to end by itself
NextStatsStop ==
    \/ \E s \in Servers : StartCall(s) /\ Sampling
    \/ \E s \in Servers : StartResume(s) /\ Sampling
    \/ \E e \in Entries : SettleTimer(e) /\ Sampling
    \/ \E s \in Servers : StopCall(s, FALSE) /\ Sampling
    \/ \E s \in Servers : KillCall(s) /\ Sampling
    \/ SampleStart
    \/ SampleResume

SpecStatsStop == Init /\ [][NextStatsStop]_vars

\* the supervisor with one start whose configuration has mounts, and what
\* can happen to the process it spawns
Mounting == UNCHANGED aux

NextMounts ==
    \/ \E s \in Servers, n \in 1..MaxMounts : MountedStart(s, n)
    \/ MountMkdir
    \/ MountStep
    \/ \E e \in Entries : SettleTimer(e) /\ Mounting
    \/ \E p \in Entries : ProcDie(p) /\ Mounting
    \/ \E p \in Entries : ExitEvent(p) /\ Mounting
    \/ \E s \in Servers : StopCall(s, FALSE) /\ Mounting
    \/ \E i \in 1..Len(stopTasks) : StopTimeout(i) /\ Mounting
    \/ \E s \in Servers : KillCall(s) /\ Mounting

SpecMounts == Init /\ [][NextMounts]_vars

\* the resolution of the startup command, for every configuration
InitTemplate ==
    /\ servers = {}
    /\ entry = <<>>
    /\ child = <<>>
    /\ settleTimers = {}
    /\ emitted = <<>>
    /\ startTasks = [s \in Servers |-> [start |-> 0, restart |-> 0]]
    /\ restartTimers = [s \in Servers |-> 0]
    /\ stopTasks = <<>>
    /\ thrown = NoError
    /\ command = NoCommand
    /\ daemon = DaemonUp
    /\ sampler = SamplerIdle
    /\ mounting = NoMounting
    /\ tokens = NoTokens
    /\ relay = NoRelay
    /\ deleting = NoDeleting
    /\ files = NoFiles
    /\ resolving = NoResolving
    /\ environ = NoEnviron
    /\ reported = NoReported
    /\ \E c \in Configs : startup = [NoStartup EXCEPT !.state = "config", !.config = c]

NextTemplate == \E s \in Servers : HandleServerStart(s)

SpecTemplate == InitTemplate /\ [][NextTemplate]_vars

\* one start, for every command
InitParse ==
    /\ servers = {}
    /\ entry = <<>>
    /\ child = <<>>
    /\ settleTimers = {}
    /\ emitted = <<>>
    /\ startTasks = [s \in Servers |-> [start |-> 0, restart |-> 0]]
    /\ restartTimers = [s \in Servers |-> 0]
    /\ stopTasks = <<>>
    /\ thrown = NoError
    /\ command = NoCommand
    /\ daemon = DaemonUp
    /\ sampler = SamplerIdle
    /\ mounting = NoMounting
    /\ startup = NoStartup
    /\ relay = NoRelay
    /\ deleting = NoDeleting
    /\ files = NoFiles
    /\ resolving = NoResolving
    /\ environ = NoEnviron
    /\ reported = NoReported
    /\ \E c \in Commands : tokens = [NoTokens EXCEPT !.state = "input", !.input = c]

NextParse ==
    \/ \E s \in Servers : Reserved = 0 /\ StartCall(s) /\ UNCHANGED aux
    \/ \E s \in Servers : ParseAndSpawn(s)

SpecParse == InitParse /\ [][NextParse]_vars

\* one child and its output
NextRelay ==
    \/ \E s \in Servers : Reserved = 0 /\ StartCall(s) /\ UNCHANGED aux
    \/ \E s \in Servers : StartResume(s) /\ UNCHANGED aux
    \/ \E e \in Entries : SettleTimer(e) /\ UNCHANGED aux
    \/ \E p \in Entries : ProcDie(p) /\ UNCHANGED aux
    \/ \E p \in Entries : ExitEvent(p) /\ UNCHANGED aux
    \/ \E e \in Entries, st \in Streams :
          \E buf \in SeqUpTo(Bytes, MaxData) \ {<<>>} : OnData(e, st, buf)

SpecRelay == Init /\ [][NextRelay]_vars

\* the supervisor with one delete message: start messages come before it,
\* and the callbacks of the calls in flight run until it is handled
Deleting == deleting.state # "done" /\ UNCHANGED aux

NextDelete ==
    \/ \E s \in Servers : deleting.state = "idle" /\ StartCall(s) /\ Deleting
    \/ \E s \in Servers : StartResume(s) /\ Deleting
    \/ \E s \in Servers : StartFail(s) /\ Deleting
    \/ \E e \in Entries : SettleTimer(e) /\ Deleting
    \/ \E p \in Entries : ProcDie(p) /\ Deleting
    \/ \E p \in Entries : ExitEvent(p) /\ Deleting
    \/ \E s \in Servers : DeleteCall(s) /\ UNCHANGED reported
    \/ DeleteDone /\ UNCHANGED reported

SpecDelete == Init /\ [][NextDelete]_vars

\* the file requests, settling in any order
NextFiles ==
    \/ \E id \in RequestIds, kind \in FileKinds : FilesRequest(id, kind)
    \/ \E r \in files.pending, ok \in BOOLEAN : FilesSettle(r, ok)
    \/ \E r \in files.pending : FilesStreamError(r)

SpecFiles == Init /\ [][NextFiles]_vars

\* one files:mkdir request, for every path
InitPath ==
    /\ servers = {}
    /\ entry = <<>>
    /\ child = <<>>
    /\ settleTimers = {}
    /\ emitted = <<>>
    /\ startTasks = [s \in Servers |-> [start |-> 0, restart |-> 0]]
    /\ restartTimers = [s \in Servers |-> 0]
    /\ stopTasks = <<>>
    /\ thrown = NoError
    /\ command = NoCommand
    /\ daemon = DaemonUp
    /\ sampler = SamplerIdle
    /\ mounting = NoMounting
    /\ startup = NoStartup
    /\ tokens = NoTokens
    /\ relay = NoRelay
    /\ deleting = NoDeleting
    /\ files = NoFiles
    /\ \E p \in SeqUpTo(PathChars, MaxPath) :
          resolving = [NoResolving EXCEPT !.state = "input", !.input = p]
    /\ environ = NoEnviron
    /\ reported = NoReported

NextPath ==
    \/ \E id \in RequestIds : FilesMkdir(id)
    \/ \E r \in files.pending, ok \in BOOLEAN : FilesSettle(r, ok)

SpecPath == InitPath /\ [][NextPath]_vars

\* starts, stops, kills and exits with the scheduling Node guarantees: an
\* 'exit' event that is due is delivered and an armed stop timeout fires.
\* Nothing makes a process exit.
NextFair ==
    \/ \E s \in Servers : StartCall(s) /\ UNCHANGED aux
    \/ \E s \in Servers : StartResume(s) /\ UNCHANGED aux
    \/ \E p \in Entries : ProcDie(p) /\ UNCHANGED aux
    \/ \E p \in Entries : ExitEvent(p) /\ UNCHANGED aux
    \/ \E s \in Servers : StopCall(s, FALSE) /\ UNCHANGED aux
    \/ \E i \in 1..Len(stopTasks) : StopTimeout(i) /\ UNCHANGED aux
    \/ \E s \in Servers : KillCall(s) /\ UNCHANGED aux

SpecFair ==
    /\ Init /\ [][NextFair]_vars
    /\ \A p \in 1..MaxProcs : WF_vars(ExitEvent(p) /\ UNCHANGED aux)
    /\ \A i \in 1..MaxStops : WF_vars(StopTimeout(i) /\ UNCHANGED aux)

\* a process that was sent SIGKILL ends
KilledDies(p) == p \in Entries /\ child[p].killed /\ ProcDie(p)

\* the fair scheduling, with processes that die of SIGKILL
SpecFairKill ==
    /\ SpecFair
    /\ \A p \in 1..MaxProcs : WF_vars(KilledDies(p) /\ UNCHANGED aux)

\* the most processes spawned where the settle timers are followed
MaxSettled == 1

\* starts, stops, kills and exits with settle timers that fire
NextSettle ==
    \/ \E s \in Servers : Reserved < MaxSettled /\ StartCall(s) /\ UNCHANGED aux
    \/ \E s \in Servers : StartResume(s) /\ UNCHANGED aux
    \/ \E e \in Entries : SettleTimer(e) /\ UNCHANGED aux
    \/ \E p \in Entries : ProcDie(p) /\ UNCHANGED aux
    \/ \E p \in Entries : ExitEvent(p) /\ UNCHANGED aux
    \/ \E s \in Servers : StopCall(s, FALSE) /\ UNCHANGED aux
    \/ \E i \in 1..Len(stopTasks) : StopTimeout(i) /\ UNCHANGED aux
    \/ \E s \in Servers : KillCall(s) /\ UNCHANGED aux

SpecSettle ==
    /\ Init /\ [][NextSettle]_vars
    /\ \A e \in 1..MaxProcs : WF_vars(SettleTimer(e) /\ UNCHANGED aux)

\* one started process, then restart and kill power actions only: every
\* later process is spawned by the delayed start of a restart
NextRestart ==
    \/ \E s \in Servers : Reserved = 0 /\ StartCall(s) /\ UNCHANGED aux
    \/ \E s \in Servers : StartResume(s) /\ UNCHANGED aux
    \/ \E e \in Entries : SettleTimer(e) /\ UNCHANGED aux
    \/ \E p \in Entries : ProcDie(p) /\ UNCHANGED aux
    \/ \E p \in Entries : ExitEvent(p) /\ UNCHANGED aux
    \/ \E s \in Servers : StopCall(s, TRUE) /\ UNCHANGED aux
    \/ \E i \in 1..Len(stopTasks) : StopTimeout(i) /\ UNCHANGED aux
    \/ \E s \in Servers : RestartTimer(s) /\ UNCHANGED aux
    \/ \E s \in Servers : KillCall(s) /\ UNCHANGED aux

SpecRestart == Init /\ [][NextRestart]_vars

\* starts, stops, kills, console commands and exits
NextFrame ==
    \/ \E s \in Servers : StartCall(s) /\ Quiet
    \/ \E s \in Servers : StartResume(s) /\ Quiet
    \/ \E p \in Entries : ProcDie(p) /\ Quiet
    \/ \E p \in Entries : ExitEvent(p) /\ Quiet
    \/ \E s \in Servers : StopCall(s, FALSE) /\ Quiet
    \/ \E i \in 1..Len(stopTasks) : StopTimeout(i) /\ Quiet
    \/ \E s \in Servers : KillCall(s) /\ Quiet
    \/ \E s \in Servers : SendCommand(s)

SpecFrame == Init /\ [][NextFrame]_vars

\* one start, for every environment of the agent and of the caller
InitEnv ==
    /\ servers = {}
    /\ entry = <<>>
    /\ child = <<>>
    /\ settleTimers = {}
    /\ emitted = <<>>
    /\ startTasks = [s \in Servers |-> [start |-> 0, restart |-> 0]]
    /\ restartTimers = [s \in Servers |-> 0]
    /\ stopTasks = <<>>
    /\ thrown = NoError
    /\ command = NoCommand
    /\ daemon = DaemonUp
    /\ sampler = SamplerIdle
    /\ mounting = NoMounting
    /\ startup = NoStartup
    /\ tokens = NoTokens
    /\ relay = NoRelay
    /\ deleting = NoDeleting
    /\ files = NoFiles
    /\ resolving = NoResolving
    /\ \E a, c \in Envs :
          environ = [NoEnviron EXCEPT !.state = "input", !.agent = a, !.caller = c]
    /\ reported = NoReported

NextEnv ==
    \/ \E s \in Servers : Reserved = 0 /\ StartCall(s) /\ UNCHANGED aux
    \/ \E s \in Servers : SpawnWithEnv(s)

SpecEnv == InitEnv /\ [][NextEnv]_vars

\* the supervisor with create, power and delete messages, and the statuses
\* the control plane receives
NextStatus ==
    \/ \E s \in Servers : StartCall(s) /\ Reporting /\ UNCHANGED deleting
    \/ \E s \in Servers : StartResume(s) /\ Reporting /\ UNCHANGED deleting
    \/ \E e \in Entries : SettleTimer(e) /\ Reporting /\ UNCHANGED deleting
    \/ \E p \in Entries : ProcDie(p) /\ Reporting /\ UNCHANGED deleting
    \/ \E p \in Entries : ExitEvent(p) /\ Reporting /\ UNCHANGED deleting
    \/ \E s \in Servers : StopCall(s, FALSE) /\ Reporting /\ UNCHANGED deleting
    \/ \E i \in 1..Len(stopTasks) : StopTimeout(i) /\ Reporting /\ UNCHANGED deleting
    \/ \E s \in Servers : KillCall(s) /\ Reporting /\ UNCHANGED deleting
    \/ \E s \in Servers : DeleteCall(s) /\ Reporting
    \/ DeleteDone /\ UNCHANGED reported
    \/ \E s \in Servers : CreateCall(s)
    \/ \E s \in Servers, ok \in BOOLEAN : CreateDone(s, ok)

SpecStatus == Init /\ [][NextStatus]_vars

\* ------------------------------------------------------------------ claims
Active(s) ==
    \E pr \in servers : pr[1] = s /\ entry[pr[2]].status \in {"RUNNING", "STARTING"}

HasEvent(e, st, by) ==
    \E i \in DOMAIN emitted[e] : emitted[e][i] = Ev(st, by)

Count(e, st) == Cardinality({i \in DOMAIN emitted[e] : emitted[e][i].status = st})

\* C1: in every reachable state the registry holds at most one entry per
\* serverId.
C1_AtMostOneEntry ==
    \A s \in Servers : Cardinality({pr \in servers : pr[1] = s}) <= 1

\* a second entry of a server was registered while its first one, STOPPING,
\* still had a live process
C1_Witness ==
    \E pr \in servers : \E e \in Entries :
        /\ e < pr[2]
        /\ entry[e].serverId = pr[1]
        /\ entry[e].status = "STOPPING"
        /\ child[e].state = "alive"

\* C2: while the entry of a server is RUNNING or STARTING no startServer call
\* for it gets past the status check (a call either passes or throws 'already
\* running'), and the step that throws spawns nothing and leaves registry,
\* entries and children unchanged.
C2_RejectsWhileActive ==
    [][\A s \in Servers :
          Active(s) =>
             /\ startTasks'[s].start + startTasks'[s].restart <= Pending(s)
             /\ (thrown'.error = "AlreadyRunning" /\ thrown'.serverId = s) =>
                  UNCHANGED <<servers, entry, child, emitted, startTasks,
                              stopTasks, settleTimers>>]_vars

\* a start was just rejected and the entry of the server is still active
C2_Witness ==
    /\ thrown.op = "start"
    /\ thrown.error = "AlreadyRunning"
    /\ Active(thrown.serverId)

\* C3: an entry that killServer acted on is out of the registry and has had
\* exactly one OFFLINE status event, also after the late exit event.
C3_KillEmitsOneOffline ==
    \A e \in Entries :
        HasEvent(e, "OFFLINE", "kill") => ~Tracked(e) /\ Count(e, "OFFLINE") = 1

\* C4: a stopServer call on a tracked server has returned only if the
\* process of that server has exited.
C4_StopReturnsAfterExit ==
    \A i \in 1..Len(stopTasks) :
        stopTasks[i].state = "returned" => child[stopTasks[i].entry].state # "alive"

\* C5: an entry whose process reported exit or error is out of the registry
\* and has had exactly one OFFLINE status event.
C5_ExitEmitsOneOffline ==
    \A e \in Entries :
        (HasEvent(e, "OFFLINE", "exit") \/ HasEvent(e, "OFFLINE", "error"))
            => ~Tracked(e) /\ Count(e, "OFFLINE") = 1

\* C6: every spawned process that has not exited and has not been killed is
\* referenced by the registry entry of its serverId.
C6_RunningIsTracked ==
    \A p \in Entries :
        (child[p].state = "alive" /\ ~child[p].killed) => Tracked(p)

\* C7: every entry in the registry is STARTING, RUNNING or STOPPING, and
\* getServerStatus answers OFFLINE exactly for the servers without an entry.
C7_RegistryStatus ==
    /\ \A pr \in servers : entry[pr[2]].status \in {"STARTING", "RUNNING", "STOPPING"}
    /\ \A s \in Servers : getServerStatus(s) = "OFFLINE" <=> ~MapHas(servers, s)

\* one server is tracked and STOPPING while another lost its entry to an
\* exit or a kill
C7_Witness ==
    \E s, u \in Servers :
        /\ getServerStatus(s) = "STOPPING"
        /\ ~MapHas(servers, u)
        /\ \E e \in Entries :
              /\ entry[e].serverId = u
              /\ entry[e].status = "OFFLINE"
              /\ child[e].state # "failed"

\* C8: when the stop timeout fires on a process that has not exited, a
\* SIGKILL has been sent to that process by the end of the timeout handler.
C8_TimeoutSendsSigkill ==
    [][\A i \in 1..Len(stopTasks) :
          (/\ stopTasks[i].state = "racing"
           /\ stopTasks'[i].state = "returned"
           /\ child[stopTasks[i].entry].state = "alive")
             => child'[stopTasks[i].entry].killed]_vars

\* a stop returned through its timeout: the process is signalled, not yet gone
C8_Witness ==
    \E i \in 1..Len(stopTasks) :
        /\ stopTasks[i].state = "returned"
        /\ child[stopTasks[i].entry].state = "alive"
        /\ child[stopTasks[i].entry].killed

\* C9: no RUNNING status event of an entry follows an OFFLINE or a STOPPING
\* event of that entry.
C9_NoRunningAfterOfflineOrStopping ==
    \A e \in Entries : \A i, j \in DOMAIN emitted[e] :
        (i < j /\ emitted[e][j].status = "RUNNING")
            => emitted[e][i].status \notin {"OFFLINE", "STOPPING"}

\* the settle timer of a spawned process fired after a stop or a kill and
\* promoted nothing
C9_Witness ==
    \E e \in Entries :
        /\ e \notin settleTimers
        /\ child[e].state # "failed"
        /\ Count(e, "RUNNING") = 0
        /\ Count(e, "OFFLINE") + Count(e, "STOPPING") > 0

\* C10: while the registry holds a STARTING, RUNNING or STOPPING entry of a
\* server, no startServer call for that server gets past the status check.
C10_RejectsNonOffline ==
    [][\A s \in Servers :
          (/\ MapHas(servers, s)
           /\ entry[MapGet(servers, s)].status \in {"STARTING", "RUNNING", "STOPPING"})
             => startTasks'[s].start + startTasks'[s].restart <= Pending(s)]_vars

\* C11: a sendCommand call for a server with no entry, or whose stdin is not
\* writable, writes to no process; no sendCommand call throws, emits a status
\* event or changes registry, entries, children, timers or tasks, and a line
\* that is written goes to the child of the entry registered for the server.
C11_CommandNoOp ==
    [][command' # NoCommand =>
          /\ (~MapHas(servers, command'.serverId) \/ ~command'.writable)
                => command'.wrote = 0
          /\ command'.wrote # 0 => command'.wrote = MapGet(servers, command'.serverId)
          /\ thrown' = NoError
          /\ UNCHANGED <<servers, entry, child, settleTimers, emitted, startTasks,
                         restartTimers, stopTasks>>]_vars

\* a command was sent to a server that lost its entry, and one to a tracked
\* server whose stdin is no longer writable
C11_Witness ==
    /\ command # NoCommand
    /\ command.wrote = 0
    /\ \/ /\ ~MapHas(servers, command.serverId)
          /\ \E e \in Entries : entry[e].serverId = command.serverId
       \/ MapHas(servers, command.serverId) /\ ~command.writable

\* C12: the shutdown step calls stopServer, and sends no signal, for every
\* server tracked at that moment, all those stops are racing together at the
\* end of that step, and the daemon has exited only if every one of them has
\* returned.
C12_ShutdownWaitsForAllStops ==
    [][/\ (daemon.state = "up" /\ daemon'.state # "up") =>
             /\ daemon'.tracked = {s \in Servers : MapHas(servers, s)}
             /\ \A s \in daemon'.tracked : \E i \in daemon'.waits :
                   /\ i > Len(stopTasks)
                   /\ stopTasks'[i].serverId = s
                   /\ stopTasks'[i].entry = MapGet(servers, s)
                   /\ entry'[stopTasks'[i].entry].status = "STOPPING"
             /\ \A i \in daemon'.waits : stopTasks'[i].state = "racing"
             /\ UNCHANGED <<servers, child>>
       /\ daemon'.state = "exited" =>
             \A i \in daemon'.waits : stopTasks'[i].state = "returned"]_vars

\* the daemon exited after two servers were stopped together
C12_Witness ==
    /\ daemon.state = "exited"
    /\ Cardinality(daemon.tracked) = 2
    /\ Cardinality(daemon.waits) = 2

\* C13: a restart arms its 2 s timer only when its stopServer call has
\* returned (at once when the server has no entry), and the armed timer runs
\* the start whatever has become of the stopped process: it is never held
\* back by a process that has not exited or an entry still registered.
C13_RestartStartsAfterStopReturns ==
    /\ [][\A s \in Servers :
             restartTimers'[s] > restartTimers[s] =>
                \/ ~MapHas(servers, s) /\ UNCHANGED stopTasks
                \/ \E i \in 1..Len(stopTasks) :
                      /\ stopTasks[i].serverId = s
                      /\ stopTasks[i].restart
                      /\ stopTasks[i].state = "racing"
                      /\ stopTasks'[i].state = "returned"]_vars
    /\ [](\A s \in Servers : restartTimers[s] > 0 => ENABLED RestartTimer(s))

\* the delayed start of a restart got past the status check while the process
\* that the restart stopped is still alive and registered
C13_Witness ==
    \E i \in 1..Len(stopTasks) :
        /\ stopTasks[i].restart
        /\ stopTasks[i].state = "returned"
        /\ child[stopTasks[i].entry].state = "alive"
        /\ Tracked(stopTasks[i].entry)
        /\ startTasks[stopTasks[i].serverId].restart > 0

\* C14: every error thrown by a start, stop or kill that a power message
\* triggered, the delayed start of a restart included, is caught by the power
\* handler and reported as an error event.
C14_FailuresReported == thrown # NoError => Caught(thrown)

\* C15: in a stats pass every answered usage query leaves its own server's
\* reading and no other: zero cpu and memory when the query failed, the
\* rounded usage when it succeeded; a failed query does not end the pass: at
\* the return every server that was RUNNING throughout the pass has a reading.
C15_FailedQueryYieldsZeroOnly ==
    /\ \A s \in Servers :
          sampler.stats[s] =
             IF ~sampler.queried[s].made THEN NoStats
             ELSE IF sampler.queried[s].ok THEN Reading(sampler.queried[s].usage)
             ELSE ZeroStats
    /\ sampler.state = "done" =>
          \A s \in sampler.steady : sampler.stats[s] # NoStats

\* a pass returned a zero reading for a server whose process had exited and,
\* after it, the usage of another server
C15_Witness ==
    /\ sampler.state = "done"
    /\ \E s, t \in Servers :
          /\ s # t
          /\ sampler.queried[s].made /\ ~sampler.queried[s].ok
          /\ \E e \in Entries : entry[e].serverId = s /\ child[e].state \in {"dead", "reaped"}
          /\ t \in sampler.steady
          /\ sampler.queried[t].ok
          /\ sampler.stats[t] = [cpu |-> 12350, memory |-> 2]

\* the elements of a sequence
Range(q) == {q[j] : j \in DOMAIN q}

\* C16 as stated: every mount with a failed step, the removal of the target
\* included, has its warning line.
C16_EveryFailureWarns ==
    mounting.rmFailed \cup mounting.stepFailed \subseteq Range(mounting.out)

\* C16, amended: a mount whose parent creation or symlink fails, and no
\* other, gets exactly one warning line on the output callback (a failed
\* removal of the target is ignored and the mount goes on); no failure in
\* the mount loop makes startServer throw; when the loop ends every mount was
\* attempted and the same callback spawns the process and registers it.
C16_MountFailureDoesNotAbort ==
    /\ [](/\ Range(mounting.out) = mounting.stepFailed
          /\ Len(mounting.out) = Cardinality(mounting.stepFailed)
          /\ mounting.linked \cap mounting.stepFailed = {})
    /\ [](mounting.state = "spawned" =>
            /\ mounting.attempted = 1..mounting.n
            /\ mounting.linked \cup mounting.stepFailed = 1..mounting.n
            /\ mounting.entry \in Entries
            /\ entry[mounting.entry].serverId = mounting.serverId)
    /\ [][mounting.state = "mounting" =>
            /\ mounting'.state \in {"mounting", "spawned"}
            /\ mounting'.state = "spawned" =>
                 /\ Len(entry') = Len(entry) + 1
                 /\ child'[Len(entry')].state = "alive" =>
                      <<mounting.serverId, Len(entry')>> \in servers']_vars

\* a start with two mounts spawned and registered its process after the
\* first mount failed at its symlink and the second was linked
C16_Witness ==
    /\ mounting.state = "spawned"
    /\ mounting.n = 2
    /\ mounting.out = <<1>>
    /\ mounting.linked = {2}
    /\ Tracked(mounting.entry)
    /\ child[mounting.entry].state = "alive"

\* the number of pieces of str equal to p
Occurrences(str, p) == Cardinality({j \in DOMAIN str : str[j] = p})

\* no variable of the configuration is named name or brings {{name}} in
NotSupplied(config, name) ==
    \A j \in DOMAIN config.variables :
        /\ config.variables[j].envVariable # name
        /\ Ph(name) \notin Range(config.variables[j].value)

\* C17: the resolved command holds no {{SERVER_JARFILE}} and no
\* {{MC_VERSION}}; when no caller-supplied variable resolves or brings in
\* the placeholder, each of its occurrences in the template has become
\* 'server.jar' (or 'latest'); the template java -Xmx{{SERVER_MEMORY}}M -jar
\* {{SERVER_JARFILE}} with memory 1024 and no variables resolves to
\* java -Xmx1024M -jar server.jar.
C17_FallbackResolvesLeftovers ==
    startup.state = "resolved" =>
        LET c == startup.config
            r == startup.command
        IN /\ Ph("SERVER_JARFILE") \notin Range(r)
           /\ Ph("MC_VERSION") \notin Range(r)
           /\ NotSupplied(c, "SERVER_JARFILE") =>
                 Occurrences(r, Lit("server.jar"))
                    = Occurrences(c.startup, Ph("SERVER_JARFILE"))
           /\ NotSupplied(c, "MC_VERSION") =>
                 Occurrences(r, Lit("latest"))
                    = Occurrences(c.startup, Ph("MC_VERSION"))
           /\ (c.startup = ExampleTemplate /\ c.memory = 1024 /\ c.variables = <<>>) =>
                 r = <<Lit("java -Xmx"),
                       [kind |-> "lit", text |-> "", digits |-> <<1, 0, 2, 4>>],
                       Lit("M -jar "), Lit("server.jar")>>

\* the example of the specification was resolved and its start call made
C17_Witness ==
    /\ startup.state = "resolved"
    /\ startup.config.startup = ExampleTemplate
    /\ startup.config.memory = 1024
    /\ startup.config.variables = <<>>
    /\ Lit("server.jar") \in Range(startup.command)
    /\ Pending("s1") = 1

\* the quote character in force before position i of str, "" outside quotes
RECURSIVE QuoteBefore(_, _)
QuoteBefore(str, i) ==
    IF i = 1 THEN ""
    ELSE LET q == QuoteBefore(str, i - 1) IN
         IF q = "" THEN (IF str[i - 1] \in Quotes THEN str[i - 1] ELSE "")
         ELSE IF str[i - 1] = q THEN "" ELSE q

\* position i opens or closes a quoted span
IsQuoteMark(str, i) ==
    LET q == QuoteBefore(str, i) IN
    IF q = "" THEN str[i] \in Quotes ELSE str[i] = q

\* position i is an unquoted separator
IsSeparator(str, i, seps) == QuoteBefore(str, i) = "" /\ str[i] \in seps

\* the maximal runs a..b of positions without a separator
Runs(str, seps) ==
    {r \in (DOMAIN str) \X (DOMAIN str) :
        /\ r[1] <= r[2]
        /\ \A i \in r[1]..r[2] : ~IsSeparator(str, i, seps)
        /\ r[1] = 1 \/ IsSeparator(str, r[1] - 1, seps)
        /\ r[2] = Len(str) \/ IsSeparator(str, r[2] + 1, seps)}

\* the characters of positions a..b that are no quote marks
RECURSIVE Content(_, _, _)
Content(str, a, b) ==
    IF a > b THEN <<>>
    ELSE (IF IsQuoteMark(str, a) THEN <<>> ELSE <<str[a]>>) \o Content(str, a + 1, b)

\* the non-empty contents of the runs that begin at position a or later
RECURSIVE TokensFrom(_, _, _)
TokensFrom(str, seps, a) ==
    IF a > Len(str) THEN <<>>
    ELSE IF \E r \in Runs(str, seps) : r[1] = a
    THEN LET r == CHOOSE x \in Runs(str, seps) : x[1] = a
             c == Content(str, r[1], r[2])
         IN (IF c = <<>> THEN <<>> ELSE <<c>>) \o TokensFrom(str, seps, r[2] + 1)
    ELSE TokensFrom(str, seps, a + 1)

\* C18 as stated: the tokens are what lies between the unquoted whitespace
\* characters (space or tab), quote marks removed.
C18_SplitsOnWhitespace ==
    tokens.state = "parsed" =>
        tokens.parts = TokensFrom(tokens.input, {" ", "\t"}, 1)

\* C18, amended: the tokens are what lies between the unquoted space
\* characters, quote marks removed and empty tokens left out: a quoted span
\* stays in one token whatever it holds, together with the unquoted
\* characters next to it; a tab separates nothing; an unterminated quote
\* takes the rest of the command; start "My Server" --flag 'a b' gives
\* start, My Server, --flag, a b.
C18_SplitsOnUnquotedSpaces ==
    tokens.state = "parsed" =>
        /\ tokens.parts = TokensFrom(tokens.input, {" "}, 1)
        /\ \A j \in DOMAIN tokens.parts : tokens.parts[j] # <<>>
        /\ tokens.input = ExampleCommand =>
              tokens.parts = << <<"s", "t", "a", "r", "t">>,
                                <<"M", "y", " ", "S", "e", "r", "v", "e", "r">>,
                                <<"-", "-", "f", "l", "a", "g">>,
                                <<"a", " ", "b">> >>

\* the example was tokenized and the process spawned
C18_Witness ==
    /\ tokens.state = "parsed"
    /\ tokens.input = ExampleCommand
    /\ Len(tokens.parts) = 4
    /\ Len(entry) = 1

\* the line of an output event as the child wrote it
Payload(ev) == IF ev.stream = "stderr" THEN Tail(ev.line) ELSE ev.line

\* C19: every output event carries a non-empty line, and so does it without
\* the prefix of stderr.
C19_NoEmptyLine ==
    \A j \in DOMAIN relay.events :
        /\ relay.events[j].line # <<>>
        /\ Payload(relay.events[j]) # <<>>

\* a chunk that ends with a line feed was relayed as one event
C19_Witness ==
    /\ relay.data["stdout"] = <<97, 10>>
    /\ relay.data["stderr"] = <<>>
    /\ Len(relay.events) = 1

\* the payloads of the events of stream st, in emission order
RECURSIVE PayloadsOf(_, _)
PayloadsOf(evs, st) ==
    IF evs = <<>> THEN <<>>
    ELSE (IF Head(evs).stream = st THEN <<Payload(Head(evs))>> ELSE <<>>)
         \o PayloadsOf(Tail(evs), st)

\* the non-empty elements of a sequence of lines
RECURSIVE NonEmpty(_)
NonEmpty(ls) ==
    IF ls = <<>> THEN <<>>
    ELSE (IF Head(ls) # <<>> THEN <<Head(ls)>> ELSE <<>>) \o NonEmpty(Tail(ls))

\* C20: the events of a stream are the non-empty lines of all the data the
\* stream has delivered, in order.
C20_EventsAreLines ==
    \A st \in Streams :
        PayloadsOf(relay.events, st) = NonEmpty(Split(BufferToString(relay.data[st])))

\* C21: once a delete message is handled the registry holds no entry for
\* its server, also when a start of that server was in flight at its arrival
\* (the kill signal goes out in the callback that begins the removal).
C21_DeleteLeavesNoEntry ==
    deleting.state = "done" => ~MapHas(servers, deleting.serverId)

\* C22: every files request gets exactly one reply with its requestId, the
\* response of its kind or files:error, in whatever order the requests
\* settle: no requestId has two replies, and no request is left without its
\* reply when the process ends.
C22_ExactlyOneReply ==
    /\ \A j, k \in DOMAIN files.replies :
          files.replies[j].requestId = files.replies[k].requestId => j = k
    /\ \A r \in files.pending :
          \A j \in DOMAIN files.replies : files.replies[j].requestId # r.requestId
    /\ files.crashed => files.pending = {}

\* the segments of an absolute path, as written
SegmentsOf(p) == Tail(SplitSlash(p))

\* the root of the server of the requests, in segments
ServerRoot == <<<<"d">>, <<"s">>>>

\* C23: a path returned by resolvePath is absolute, has no empty, '.' or
\* '..' segment, and its segments begin with those of the server's root: it
\* is the root or lies inside it, whatever '..' segments and leading slashes
\* the input has; any other input throws.
C23_ResolvedInsideRoot ==
    resolving.state = "returned" =>
        LET segs == SegmentsOf(resolving.result) IN
        /\ Head(resolving.result) = "/"
        /\ \A j \in DOMAIN segs : segs[j] \notin {<<>>, <<".">>, <<".", ".">>}
        /\ Len(segs) >= Len(ServerRoot)
        /\ SubSeq(segs, 1, Len(ServerRoot)) = ServerRoot

\* a path that goes down and up again resolved to the root itself
C23_Witness ==
    /\ resolving.state = "returned"
    /\ resolving.input = <<"/", "s", "/", ".", ".">>
    /\ resolving.result = <<"/", "d", "/", "s">>
    /\ files.pending # {}

\* C24: while the entry of a server is RUNNING or STARTING, no suspended
\* startServer call of that server spawns a process or replaces the entry of
\* the registry: of two calls suspended together before spawn only one
\* spawns.
C24_RegistrationRevalidates ==
    [][\A s \in Servers :
          Active(s) =>
             /\ Len(entry') > Len(entry) => entry'[Len(entry')].serverId # s
             /\ MapHas(servers', s) => MapGet(servers', s) = MapGet(servers, s)]_vars

\* C25: the exit or error event of a process whose entry has been replaced
\* in the registry by a newer entry of the same server changes nothing: it
\* leaves the registry as it is and emits no status event.
C25_LateExitIsNoOp ==
    [][\A p \in Entries :
          (/\ child[p].state = "dead"
           /\ child'[p].state = "reaped"
           /\ ~Tracked(p)
           /\ MapHas(servers, entry[p].serverId))
             => servers' = servers /\ emitted' = emitted]_vars

\* C26: once killServer has acted on an entry while a stopServer call is
\* racing on it, the entry is out of the registry and has exactly one
\* OFFLINE status event, and it still has exactly one after the step in
\* which the stop returns.
C26_KillDuringStop ==
    /\ [](\A i \in 1..Len(stopTasks) :
            (/\ stopTasks[i].state = "racing"
             /\ HasEvent(stopTasks[i].entry, "OFFLINE", "kill"))
               => /\ ~Tracked(stopTasks[i].entry)
                  /\ Count(stopTasks[i].entry, "OFFLINE") = 1)
    /\ [][\A i \in 1..Len(stopTasks) :
            (/\ stopTasks[i].state = "racing"
             /\ HasEvent(stopTasks[i].entry, "OFFLINE", "kill"))
               => Count(stopTasks[i].entry, "OFFLINE")' = 1]_vars

\* C27: an entry whose process failed to spawn or has had its exit handled
\* is out of the registry; an entry that is out of the registry never comes
\* back, so it leaves the registry once; and the entry of a process that has
\* exited is eventually out of the registry.
C27_EntryRemovedOnce ==
    /\ [](\A e \in Entries :
            child[e].state \in {"failed", "reaped"} => ~Tracked(e))
    /\ [][\A e \in Entries : ~Tracked(e) => ~Tracked(e)']_vars
    /\ \A p \in 1..MaxProcs :
          (p \in Entries /\ child[p].state = "dead")
             ~> (p \in Entries /\ ~Tracked(p))

\* one start failed at spawn and another spawned a process whose exit was
\* handled: neither entry is registered
C27_Witness ==
    \E e, f \in Entries :
        /\ child[e].state = "failed"
        /\ child[f].state = "reaped"
        /\ ~child[f].killed
        /\ HasEvent(f, "OFFLINE", "exit")
        /\ ~Tracked(e)
        /\ ~Tracked(f)

\* the changes of status the lifecycle allows
StatusEdges ==
    {<<"STARTING", "RUNNING">>, <<"STARTING", "STOPPING">>,
     <<"RUNNING", "STOPPING">>}
    \cup ({"STARTING", "RUNNING", "STOPPING"} \X {"OFFLINE"})

\* C28: the status of an entry changes along the lifecycle's edges only, and
\* the OFFLINE status event of an entry is its last status event.
C28_StatusLifecycle ==
    /\ [][\A e \in Entries :
            entry'[e].status # entry[e].status
               => <<entry[e].status, entry'[e].status>> \in StatusEdges]_vars
    /\ [](\A e \in Entries : \A j \in DOMAIN emitted[e] :
            emitted[e][j].status = "OFFLINE" => j = Len(emitted[e]))

\* C29: no stopServer call is still racing once the exit event of its
\* process has been handled (the handler of that event cleared its timer and
\* resolved it), and no step sends a signal to a process whose exit event
\* has been handled.
C29_NoKillAfterExit ==
    /\ [](\A i \in 1..Len(stopTasks) :
            stopTasks[i].state = "racing"
               => child[stopTasks[i].entry].state # "reaped")
    /\ [][\A p \in Entries :
            child[p].state = "reaped" => child'[p] = child[p]]_vars

\* a stop returned through the exit event of a process that no signal was
\* sent to
C29_Witness ==
    \E i \in 1..Len(stopTasks) :
        /\ stopTasks[i].state = "returned"
        /\ child[stopTasks[i].entry].state = "reaped"
        /\ ~child[stopTasks[i].entry].killed

\* C30: no stopServer call on a server without an entry is suspended or
\* emits a STOPPING event; the timeout of a racing stopServer call can
\* always fire; and every racing stopServer call eventually returns, whether
\* or not its process ever exits.
C30_StopReturns ==
    /\ [][\A s \in Servers :
            ~MapHas(servers, s) =>
               /\ Len(stopTasks') > Len(stopTasks)
                     => stopTasks'[Len(stopTasks')].serverId # s
               /\ \A e \in Entries :
                     entry[e].serverId = s
                        => Count(e, "STOPPING")' = Count(e, "STOPPING")]_vars
    /\ [](\A i \in 1..Len(stopTasks) :
            stopTasks[i].state = "racing" => ENABLED StopTimeout(i))
    /\ \A i \in 1..MaxStops :
          (i \in 1..Len(stopTasks) /\ stopTasks[i].state = "racing")
             ~> (i \in 1..Len(stopTasks) /\ stopTasks[i].state = "returned")

\* a stop returned through its timeout while its process, signalled, is
\* still there and registered, and another server has no entry
C30_Witness ==
    /\ \E i \in 1..Len(stopTasks) :
          /\ stopTasks[i].state = "returned"
          /\ child[stopTasks[i].entry].state = "alive"
          /\ entry[stopTasks[i].entry].status = "STOPPING"
          /\ Tracked(stopTasks[i].entry)
    /\ \E s \in Servers : ~MapHas(servers, s)

\* C31: the entry a stopServer call acted on is eventually out of the
\* registry with an OFFLINE status event emitted for it, whether its process
\* exits by itself or only on the SIGKILL of the stop timeout.
C31_StopEndsOffline ==
    \A i \in 1..MaxStops :
        (i \in 1..Len(stopTasks))
           ~> (/\ i \in 1..Len(stopTasks)
               /\ ~Tracked(stopTasks[i].entry)
               /\ Count(stopTasks[i].entry, "OFFLINE") >= 1)

\* the process of a stopped server ignored the request, was killed by the
\* timeout and its exit took the entry offline
C31_Witness ==
    \E i \in 1..Len(stopTasks) :
        /\ stopTasks[i].state = "returned"
        /\ child[stopTasks[i].entry].state = "reaped"
        /\ child[stopTasks[i].entry].killed
        /\ ~HasEvent(stopTasks[i].entry, "OFFLINE", "kill")
        /\ HasEvent(stopTasks[i].entry, "OFFLINE", "exit")
        /\ ~Tracked(stopTasks[i].entry)

\* entry e has had no stop, kill, exit or error: its only status events are
\* those of its start and of its settle timer
Undisturbed(e) ==
    \A j \in DOMAIN emitted[e] : emitted[e][j].by \in {"start", "settle"}

\* C32: the settle timer of every spawned process fires; when it fires on
\* an entry that is STARTING and whose process was sent no signal, the entry
\* becomes RUNNING and has exactly one RUNNING status event; an entry that
\* nothing disturbed is RUNNING with that one event once its timer has
\* fired; no entry ever has two RUNNING events.
C32_SettlePromotesOnce ==
    /\ [][\A e \in Entries :
            (/\ e \in settleTimers
             /\ e \notin settleTimers'
             /\ entry[e].status = "STARTING"
             /\ ~child[e].killed)
               => /\ entry'[e].status = "RUNNING"
                  /\ Count(e, "RUNNING")' = 1]_vars
    /\ [](\A e \in Entries :
            /\ Count(e, "RUNNING") <= 1
            /\ (e \notin settleTimers /\ Undisturbed(e) /\ ~child[e].killed)
                  => entry[e].status = "RUNNING" /\ Count(e, "RUNNING") = 1)
    /\ \A e \in 1..MaxProcs :
          (e \in Entries /\ e \in settleTimers) ~> (e \notin settleTimers)

\* a process that nothing disturbed was promoted by its settle timer
C32_Witness ==
    \E e \in Entries :
        /\ e \notin settleTimers
        /\ child[e].state = "alive"
        /\ Tracked(e)
        /\ entry[e].status = "RUNNING"
        /\ emitted[e] = <<Ev("STARTING", "start"), Ev("RUNNING", "settle")>>

\* C33: the entry that the delayed start of a restart registered is not
\* removed by the exit or error event of an earlier process of the same
\* server.
C33_RestartEntrySurvives ==
    [][\A e, p \in Entries :
          (/\ p < e
           /\ entry[p].serverId = entry[e].serverId
           /\ Tracked(e)
           /\ child[e].state = "alive"
           /\ child[p].state = "dead"
           /\ child'[p].state = "reaped")
             => Tracked(e)']_vars

\* the entries ever created for server u
OfServer(u) == {e \in Entries : entry[e].serverId = u}

\* everything the supervisor holds for server u: its registry entry, its
\* entries with their processes, status events and settle timers, and its
\* start, restart and stop calls
Footprint(u) ==
    <<{pr \in servers : pr[1] = u},
      [e \in OfServer(u) |-> <<entry[e], child[e], emitted[e]>>],
      settleTimers \cap OfServer(u),
      startTasks[u],
      restartTimers[u],
      [i \in {j \in 1..Len(stopTasks) : stopTasks[j].serverId = u} |-> stopTasks[i]]>>

\* C34: no step changes what the supervisor holds for two servers; a step
\* that throws for a server or sends a command to it changes nothing of
\* another server, and a command line is written to a process of the server
\* it names.
C34_OneServerPerStep ==
    [][/\ \A u, v \in Servers :
            u # v => Footprint(u)' = Footprint(u) \/ Footprint(v)' = Footprint(v)
       /\ thrown' # NoError =>
            \A u \in Servers \ {thrown'.serverId} : Footprint(u)' = Footprint(u)
       /\ command' # NoCommand =>
            /\ \A u \in Servers \ {command'.serverId} : Footprint(u)' = Footprint(u)
            /\ command'.wrote # 0 => entry[command'.wrote].serverId = command'.serverId]_vars

\* a command for a server whose process exited was dropped while the other
\* server, untouched, is STARTING
C34_Witness ==
    \E e, f \in Entries :
        /\ entry[e].serverId # entry[f].serverId
        /\ HasEvent(e, "OFFLINE", "exit")
        /\ command.serverId = entry[e].serverId
        /\ command.wrote = 0
        /\ Tracked(f)
        /\ child[f].state = "alive"
        /\ emitted[f] = <<Ev("STARTING", "start")>>

\* C35: a stats pass writes a reading only for the server whose usage query
\* it is awaiting, and it starts awaiting the query of a server only in a
\* step before which the registry entry of that server is RUNNING: a server
\* that is STARTING, STOPPING or without an entry whenever the pass looks at
\* it gets no reading.
C35_ReadingOnlyIfRunning ==
    [][\A s \in Servers :
          /\ sampler'.stats[s] # sampler.stats[s] =>
                /\ sampler.state = "awaiting"
                /\ sampler.cur = s
          /\ (/\ sampler'.state = "awaiting"
              /\ sampler'.cur = s
              /\ sampler.cur # s \/ sampler'.queried # sampler.queried)
                => getServerStatus(s) = "RUNNING" /\ UNCHANGED <<servers, entry>>]_vars

\* a pass returned a reading for the RUNNING server and none for the other,
\* whose entry was STOPPING
C35_Witness ==
    /\ sampler.state = "done"
    /\ \E s, t \in Servers :
          /\ sampler.stats[s] # NoStats
          /\ sampler.stats[t] = NoStats
          /\ getServerStatus(t) = "STOPPING"
          /\ t \in sampler.visited

\* the substitution steps of a configuration, in the stated order: memory,
\* the caller's variables, allocation address and port, the two fallbacks
StepsOf(config) ==
    <<[name |-> "SERVER_MEMORY", rep |-> <<Num(config.memory)>>]>>
    \o [j \in DOMAIN config.variables |->
          [name |-> config.variables[j].envVariable,
           rep |-> config.variables[j].value]]
    \o (IF config.allocation
        THEN <<[name |-> "SERVER_IP", rep |-> AllocationIp],
               [name |-> "SERVER_PORT", rep |-> AllocationPort]>>
        ELSE <<>>)
    \o <<[name |-> "SERVER_JARFILE", rep |-> <<Lit("server.jar")>>],
          [name |-> "MC_VERSION", rep |-> <<Lit("latest")>>]>>

\* what becomes of the pieces of str from step k on: each placeholder is
\* replaced by the first step that matches it, and what that step put in
\* its place is open to the later steps only
RECURSIVE FirstMatch(_, _, _)
FirstMatch(str, steps, k) ==
    IF str = <<>> THEN <<>>
    ELSE IF k > Len(steps) THEN str
    ELSE (IF Head(str) = Ph(steps[k].name)
          THEN FirstMatch(steps[k].rep, steps, k + 1)
          ELSE FirstMatch(<<Head(str)>>, steps, k + 1))
         \o FirstMatch(Tail(str), steps, k)

OpenQuote(str) ==
    IF str = <<>> \/ QuoteBefore(str, Len(str) + 1) = "" THEN 0
    ELSE CHOOSE k \in DOMAIN str :
            /\ QuoteBefore(str, k) = ""
            /\ \A j \in (k + 1)..(Len(str) + 1) : QuoteBefore(str, j) # ""

\* C37: every token is non-empty, and when a quote is never closed
\* everything after it, separators and other quote characters included, is
\* the end of the last token; the call that parsed the command threw
\* nothing.
C37_UnterminatedQuoteAbsorbs ==
    tokens.state = "parsed" =>
        /\ thrown = NoError
        /\ \A j \in DOMAIN tokens.parts : tokens.parts[j] # <<>>
        /\ LET k == OpenQuote(tokens.input)
               rest == SubSeq(tokens.input, k + 1, Len(tokens.input))
           IN (k # 0 /\ rest # <<>>) =>
                 /\ tokens.parts # <<>>
                 /\ LET last == tokens.parts[Len(tokens.parts)] IN
                    /\ Len(last) >= Len(rest)
                    /\ SubSeq(last, Len(last) - Len(rest) + 1, Len(last)) = rest

\* a double quote that is never closed took a space and a single quote into
\* its token
C37_Witness ==
    /\ tokens.state = "parsed"
    /\ tokens.input = <<"\"", "a", " ", "'">>
    /\ tokens.parts = << <<"a", " ", "'">> >>
    /\ thrown = NoError

\* C38: the environment of a spawned child defines HOME as the root of its
\* server, every other name of the caller with the caller's value, the
\* remaining names of the agent with the agent's value, and nothing else.
C38_HomeIsServerRoot ==
    environ.state \in Servers =>
        LET c == environ.child IN
        /\ DOMAIN c = DOMAIN environ.agent \cup DOMAIN environ.caller \cup {"HOME"}
        /\ c["HOME"] = ServerPath(environ.state)
        /\ \A k \in DOMAIN environ.caller \ {"HOME"} : c[k] = environ.caller[k]
        /\ \A k \in DOMAIN environ.agent \ (DOMAIN environ.caller \cup {"HOME"}) :
              c[k] = environ.agent[k]

\* the agent and the caller both defined another HOME, and PATH differently
C38_Witness ==
    /\ environ.state = "s1"
    /\ environ.agent = [k \in EnvKeys |-> <<"root">>]
    /\ environ.caller = [k \in EnvKeys |-> ServerPath("s2")]
    /\ environ.child = [k \in EnvKeys |->
                           IF k = "HOME" THEN ServerPath("s1") ELSE ServerPath("s2")]
    /\ Len(entry) = 1

\* C39: a stopServer call keeps the entry that was registered under its
\* serverId when it began, and in the step in which its timeout fires the only
\* child that can receive the forced kill is the child of that entry, never
\* one spawned later under the same serverId.
C39_TimeoutKillsCaptured ==
    [][/\ \A i \in 1..Len(stopTasks') :
             (IF i \in 1..Len(stopTasks)
              THEN /\ stopTasks'[i].entry = stopTasks[i].entry
                   /\ stopTasks'[i].serverId = stopTasks[i].serverId
              ELSE /\ MapHas(servers, stopTasks'[i].serverId)
                   /\ stopTasks'[i].entry = MapGet(servers, stopTasks'[i].serverId))
        /\ \A j \in 1..Len(stopTasks) :
             (stopTasks[j].state = "racing" /\ stopTasks'[j].state = "returned")
                => \A e \in Entries :
                      child'[e].killed # child[e].killed => e = stopTasks[j].entry
       ]_vars

\* a stop timed out and killed the first process of s1 after a second process
\* had been spawned under s1, which no signal reached
C39_Witness ==
    /\ Len(stopTasks) >= 1
    /\ stopTasks[1].state = "returned"
    /\ stopTasks[1].entry = 1
    /\ Len(entry) >= 2
    /\ entry[2].serverId = entry[1].serverId
    /\ child[1].killed
    /\ Count(1, "OFFLINE") = 0
    /\ Tracked(2)
    /\ child[2].state = "alive"
    /\ ~child[2].killed

\* C40: whenever no handler is between two awaits, the status of the latest
\* server:status message sent for a serverId is the registry status of that
\* server, OFFLINE when it has no entry.
C40_ReportedIsRegistryStatus ==
    Quiescent =>
        \A s \in Servers :
            reported[s].last # "none" => reported[s].last = getServerStatus(s)
====
